---- MODULE Spec2Model ----
(***************************************************************************)
(* A model of the minitorch tensor engine: the strided indexer, the        *)
(* FastOps kernels (map, zip, reduce, matrix multiply), operation dispatch *)
(* (Function.apply) and reverse-mode differentiation over Tensor.          *)
(*                                                                         *)
(* Conventions.  Shapes, strides and indices are sequences; dimension d of *)
(* the code (0-based) is position d+1 here.  Storage positions, ordinals   *)
(* and index coordinates keep the code's 0-based values; Rd/Wr convert.    *)
(* Floating-point elements are modelled by integers.                       *)
(***************************************************************************)
EXTENDS Integers, Sequences, FiniteSets, TLC

VARIABLES
    kern,          \* the kernel call in progress (FastOps.zip / reduce / matrix_multiply)
    tensors,       \* the Tensor objects the program holds, by unique_id
    tensor_count,  \* the global _tensor_count
    pc,            \* "idle", or where a backward() call stands
    bp,            \* the state of the backpropagate call in progress
    called,        \* the last call made and what it was given (observation only)
    contribs,      \* per leaf, what accumulate_derivative was given since the
                   \* last zero_grad_ (observation only)
    scalars,       \* the Scalar objects the program holds, by unique_id
    var_count,     \* the global _var_count
    storages,      \* the storage buffers, by handle
    aliases        \* tensors whose storage is a handle into storages, in
                   \* order of creation, each with the tensor it was first
                   \* derived from by detach and view (observation only)

svars == <<scalars, var_count, storages, aliases>>
avars == <<tensors, tensor_count, pc, bp, called, contribs, svars>>
vars == <<kern, tensors, tensor_count, pc, bp, called, contribs, svars>>

\* ------------------------------------------------------------------ bounds
\* most elements of an operand, and of the result, of a generated zip call
MaxZipSize == 4
\* most elements of the operand of a generated reduce call
MaxReduceSize == 6
\* largest batch, row, column and inner size of a generated matrix multiply
MaxMatDim == 2
\* largest batch, in_channels and out_channels of a generated convolution
MaxConvChannels == 2
\* largest width of the input of a generated 1-D convolution
MaxConvWidth == 4
\* largest kernel width of a generated 1-D convolution
MaxConvKernel == 2
\* largest batch, in_channels and out_channels of a generated 2-D convolution
MaxConv2dChannels == 2
\* largest height and width of the input and of the kernel of a generated
\* 2-D convolution
MaxConv2dSize == 2
\* most elements of self, and of other, in a generated expand call
MaxExpandSize == 4
\* most elements of the tensor of a generated view or permute call
MaxViewSize == 4
\* most Tensor objects the program holds in Spec and SpecBackward
MaxTensors == 3
\* most Tensor objects, and most Scalar objects, the program holds in SpecIds
MaxIdTensors == 3
MaxIdScalars == 2
\* most tensors the program holds in SpecAlias
MaxAliasTensors == 3
\* most Tensor objects the program holds in SpecShapeOps
MaxShapeOpTensors == 5
\* most Tensor objects the program holds in SpecLeaf
MaxLeafTensors == 2
\* most Tensor objects the program holds in SpecChain
MaxChainTensors == 3
MaxChainScalars == 3
\* most Tensor objects the program holds in SpecOrder
MaxNodes == 4
\* most Tensor objects the program holds in SpecGrad
MaxGradTensors == 1
\* the value of _tensor_count past which SpecGrad constructs nothing more
MaxTensorCount == 16

\* ----------------------------------------------------------------- helpers
Max(x, y) == IF x >= y THEN x ELSE y

RECURSIVE Prod(_)
Prod(s) == IF Len(s) = 0 THEN 1 ELSE Head(s) * Prod(Tail(s))

RECURSIVE SeqSum(_)
SeqSum(s) == IF Len(s) = 0 THEN 0 ELSE Head(s) + SeqSum(Tail(s))

\* s[-1] and s[-2]
Last(s) == s[Len(s)]
Last2(s) == s[Len(s) - 1]

\* storage[p] for a 0-based position p
Rd(storage, p) == storage[p + 1]
\* storage with storage[p] = v for a 0-based position p
Wr(storage, p, v) == [storage EXCEPT ![p + 1] = v]

\* All sequences over S of length exactly n
RECURSIVE SeqsOfLen(_, _)
SeqsOfLen(S, n) ==
    IF n = 0 THEN {<<>>}
    ELSE {Append(s, x) : s \in SeqsOfLen(S, n - 1), x \in S}

\* All permutations of 0..n-1, as sequences (the `order` argument of permute)
Orders(n) == {o \in SeqsOfLen(0..(n - 1), n) : \A d \in 0..(n - 1) : \E k \in 1..n : o[k] = d}

\* ----------------------------------------------------- Shape/Stride Indexer
\* Row-major strides of a shape.
strides_from_shape(shape) ==
    [d \in 1..Len(shape) |-> Prod(SubSeq(shape, d + 1, Len(shape)))]

\* Decompose a flat ordinal into a coordinate, row-major over shape.
to_index(ordinal, shape) ==
    [d \in 1..Len(shape) |-> (ordinal \div strides_from_shape(shape)[d]) % shape[d]]

\* Dot product of index and strides.
index_to_position(index, strides) ==
    SeqSum([d \in 1..Len(strides) |-> index[d] * strides[d]])

\* Map a coordinate of big_shape to a coordinate of the broadcast source shape:
\* drop the extra leading dimensions, collapse size-1 dimensions to 0.
broadcast_index(big_index, big_shape, shape) ==
    [d \in 1..Len(shape) |->
        IF shape[d] > 1 THEN big_index[d + (Len(big_shape) - Len(shape))] ELSE 0]

\* shape right-aligned to rank n, padded with 1s on the left
PadLeft(shape, n) ==
    [d \in 1..n |-> IF d <= n - Len(shape) THEN 1 ELSE shape[d - (n - Len(shape))]]

\* Whether shape_broadcast succeeds (no BroadcastError / IndexingError).
CanBroadcast(shape1, shape2) ==
    LET n == Max(Len(shape1), Len(shape2))
        p == PadLeft(shape1, n)
        q == PadLeft(shape2, n)
    IN \A d \in 1..n : p[d] = q[d] \/ p[d] = 1 \/ q[d] = 1

\* The union shape of two broadcast-compatible shapes.
shape_broadcast(shape1, shape2) ==
    LET n == Max(Len(shape1), Len(shape2))
        p == PadLeft(shape1, n)
        q == PadLeft(shape2, n)
    IN [d \in 1..n |-> Max(p[d], q[d])]

\* ------------------------------------------------------------ Tensor Storage
\* TensorData(storage, shape, strides): strides default to row-major.
TensorData(storage, shape) ==
    [storage |-> storage, shape |-> shape, strides |-> strides_from_shape(shape)]

\* TensorData.permute(*order): the same storage, shape and strides reordered.
permute(td, order) ==
    [storage |-> td.storage,
     shape   |-> [d \in 1..Len(order) |-> td.shape[order[d] + 1]],
     strides |-> [d \in 1..Len(order) |-> td.strides[order[d] + 1]]]

\* TensorData.is_contiguous: the strides are the row-major strides of the shape.
is_contiguous(td) == td.strides = strides_from_shape(td.shape)

size(td) == Prod(td.shape)

\* Tensor.zeros(shape) / zeros(shape): a fresh contiguous tensor of 0.0.
zeros(shape) == TensorData([p \in 1..Prod(shape) |-> 0], shape)

\* TensorData.get(key): the element at coordinate key.
get(td, key) == Rd(td.storage, index_to_position(key, td.strides))

\* every coordinate of a shape
Indices(shape) == {to_index(p, shape) : p \in 0..(Prod(shape) - 1)}

\* --------------------------------------------------------- scalar operators
\* The float functions handed to map / zip / reduce, by name.
fn2(f, x, y) ==
    CASE f = "add" -> x + y
      [] f = "mul" -> x * y
      [] f = "lt"  -> IF x < y THEN 1 ELSE 0
      [] f = "shl" -> 2 * x + y

\* ------------------------------------------------------- FastOps: tensor_zip
\* A _zip that takes the flat loop whenever the shapes agree, strides unseen.
zip_misaligned_shapes_only(out, a, b) ==
    \/ Len(out.strides) # Len(a.strides)
    \/ Len(out.strides) # Len(b.strides)
    \/ b.shape # out.shape
    \/ a.shape # out.shape

\* The test that selects the indexed loop of _zip.
zip_misaligned(out, a, b) ==
    \/ Len(out.strides) # Len(a.strides)
    \/ Len(out.strides) # Len(b.strides)
    \/ a.strides # out.strides
    \/ b.strides # out.strides
    \/ b.shape # out.shape
    \/ a.shape # out.shape

\* One iteration i of the indexed loop of _zip: the out storage it leaves.
zip_iter_indexed(f, out, a, b, i) ==
    LET out_index == to_index(i, out.shape)
        o == index_to_position(out_index, out.strides)
        a_index == broadcast_index(out_index, out.shape, a.shape)
        j == index_to_position(a_index, a.strides)
        b_index == broadcast_index(out_index, out.shape, b.shape)
        k == index_to_position(b_index, b.strides)
    IN Wr(out.storage, o, fn2(f, Rd(a.storage, j), Rd(b.storage, k)))

\* One iteration i of the prange loop of _zip: the out storage it leaves.
zip_iter(f, out, a, b, i) ==
    IF zip_misaligned(out, a, b)
    THEN zip_iter_indexed(f, out, a, b, i)
    ELSE Wr(out.storage, i, fn2(f, Rd(a.storage, i), Rd(b.storage, i)))

\* f applied from i = lo up to hi - 1, the way a sequential loop runs
RECURSIVE FoldRange(_, _, _, _)
FoldRange(Op(_, _), acc, lo, hi) ==
    IF lo >= hi THEN acc ELSE FoldRange(Op, Op(acc, lo), lo + 1, hi)

\* ------------------------------------------------------- FastOps: tensor_map
\* A _map that takes the flat loop whenever the shapes agree, strides unseen.
map_misaligned_shapes_only(out, in) ==
    \/ Len(out.strides) # Len(in.strides)
    \/ in.shape # out.shape

\* The test that selects the indexed loop of _map.
map_misaligned(out, in) ==
    \/ Len(out.strides) # Len(in.strides)
    \/ in.shape # out.shape
    \/ in.strides # out.strides

\* The float functions handed to map, by name.
fn1(f, x) ==
    CASE f = "id"  -> x
      [] f = "neg" -> 0 - x

\* One iteration i of the indexed loop of _map: the out storage it leaves.
map_iter_indexed(f, out, in, i) ==
    LET out_index == to_index(i, out.shape)
        in_index == broadcast_index(out_index, out.shape, in.shape)
        o == index_to_position(out_index, out.strides)
        j == index_to_position(in_index, in.strides)
    IN Wr(out.storage, o, fn1(f, Rd(in.storage, j)))

\* One iteration i of the prange loop of _map: the out storage it leaves.
map_iter(f, out, in, i) ==
    IF map_misaligned(out, in)
    THEN map_iter_indexed(f, out, in, i)
    ELSE Wr(out.storage, i, fn1(f, Rd(in.storage, i)))

\* ret(a) of FastOps.map(fn) with out = None, the loop run to its end.
FastOps_map(f, a) ==
    LET out == zeros(a.shape)
    IN [out EXCEPT !.storage =
            FoldRange(LAMBDA st, i : map_iter(f, [out EXCEPT !.storage = st], a, i),
                      out.storage, 0, Len(out.storage))]

\* ret(a, b) of FastOps.zip(fn), the loop run to its end.
FastOps_zip(f, a, b) ==
    LET out == zeros(shape_broadcast(a.shape, b.shape))
    IN [out EXCEPT !.storage =
            FoldRange(LAMBDA st, i : zip_iter(f, [out EXCEPT !.storage = st], a, b, i),
                      out.storage, 0, Len(out.storage))]

\* A _reduce in which every iteration works on the first position of out.
reduce_iter_o_first(out, i) == 0

\* _reduce: the storage position o of out that iteration i reads and writes.
reduce_iter_o(out, i) == index_to_position(to_index(i, out.shape), out.strides)

\* _map and _zip: the storage position of out that iteration i writes.
map_iter_o(out, in, i) ==
    IF map_misaligned(out, in)
    THEN index_to_position(to_index(i, out.shape), out.strides)
    ELSE i
zip_iter_o(out, a, b, i) ==
    IF zip_misaligned(out, a, b)
    THEN index_to_position(to_index(i, out.shape), out.strides)
    ELSE i

\* no position of out written, or read, yet
NoWrites(out) == [p \in 1..Len(out.storage) |-> {}]

\* The record of which iteration touched which position of out, iteration i
\* having touched the positions ps.
Written(wrote, ps, i) ==
    [p \in DOMAIN wrote |-> IF (p - 1) \in ps THEN wrote[p] \cup {i} ELSE wrote[p]]

\* ---------------------------------------------------- FastOps: tensor_reduce
\* A _reduce that steps through storage by 1 instead of the reduced stride.
reduce_iter_unit_step(f, out, a, reduce_dim, i) ==
    LET reduce_size == a.shape[reduce_dim + 1]
        out_index == to_index(i, out.shape)
        o == index_to_position(out_index, out.strides)
        j0 == index_to_position(out_index, a.strides)
        in_range(p) == IF p < Len(a.storage) THEN p ELSE p % Len(a.storage)
        out_temp == FoldRange(LAMBDA acc, t : fn2(f, acc, Rd(a.storage, in_range(j0 + t))),
                              Rd(out.storage, o), 0, reduce_size)
    IN Wr(out.storage, o, out_temp)

\* One iteration i of the prange loop of _reduce: the out storage it leaves.
reduce_iter(f, out, a, reduce_dim, i) ==
    LET reduce_size == a.shape[reduce_dim + 1]
        out_index == to_index(i, out.shape)
        o == reduce_iter_o(out, i)
        j0 == index_to_position(out_index, a.strides)
        step == a.strides[reduce_dim + 1]
        out_temp == FoldRange(LAMBDA acc, t : fn2(f, acc, Rd(a.storage, j0 + t * step)),
                              Rd(out.storage, o), 0, reduce_size)
    IN Wr(out.storage, o, out_temp)

\* The out tensor ret(a, dim) of FastOps.reduce(fn, start) allocates and fills.
reduce_out(a, dim, start) ==
    LET out_shape == [a.shape EXCEPT ![dim + 1] = 1]
    IN TensorData([p \in 1..Prod(out_shape) |-> start], out_shape)

\* ret(a, dim) of FastOps.reduce(fn, start), the loop run to its end.
FastOps_reduce(f, start, a, dim) ==
    LET out == reduce_out(a, dim, start)
    IN [out EXCEPT !.storage =
            FoldRange(LAMBDA st, i : reduce_iter(f, [out EXCEPT !.storage = st], a, dim, i),
                      out.storage, 0, Len(out.storage))]

\* -------------------------------------------- FastOps: _tensor_matrix_multiply
\* A kernel that never advances a along its batch dimension.
matmul_batch_a_unbatched(out, a, b, batch) ==
    LET b_batch_stride == IF b.shape[1] > 1 THEN b.strides[1] ELSE 0
        b_base == batch * b_batch_stride
        a_step == Last(a.strides)
        b_step == Last2(b.strides)
        cell(i, j) ==
            FoldRange(LAMBDA out_temp, t :
                          out_temp + Rd(a.storage, i * Last2(a.strides) + t * a_step)
                                   * Rd(b.storage, b_base + j * Last(b.strides) + t * b_step),
                      0, 0, Last(a.shape))
        out_index(i, j) ==
            batch * out.strides[1] + i * Last2(out.strides) + j * Last(out.strides)
        row(st0, i) ==
            FoldRange(LAMBDA st, j : Wr(st, out_index(i, j), cell(i, j)),
                      st0, 0, Last(b.shape))
    IN FoldRange(row, out.storage, 0, Last2(a.shape))

\* One iteration `batch` of the prange loop: the out storage it leaves.
matmul_batch(out, a, b, batch) ==
    LET a_batch_stride == IF a.shape[1] > 1 THEN a.strides[1] ELSE 0
        b_batch_stride == IF b.shape[1] > 1 THEN b.strides[1] ELSE 0
        a_base == batch * a_batch_stride
        b_base == batch * b_batch_stride
        a_step == Last(a.strides)
        b_step == Last2(b.strides)
        cell(i, j) ==
            FoldRange(LAMBDA out_temp, t :
                          out_temp + Rd(a.storage, a_base + i * Last2(a.strides) + t * a_step)
                                   * Rd(b.storage, b_base + j * Last(b.strides) + t * b_step),
                      0, 0, Last(a.shape))
        out_index(i, j) ==
            batch * out.strides[1] + i * Last2(out.strides) + j * Last(out.strides)
        row(st0, i) ==
            FoldRange(LAMBDA st, j : Wr(st, out_index(i, j), cell(i, j)),
                      st0, 0, Last(b.shape))
    IN FoldRange(row, out.storage, 0, Last2(a.shape))

\* _tensor_matrix_multiply: the storage positions of out that one batch writes.
matmul_batch_writes(out, a, b, batch) ==
    {batch * out.strides[1] + i * Last2(out.strides) + j * Last(out.strides) :
        i \in 0..(Last2(a.shape) - 1), j \in 0..(Last(b.shape) - 1)}

\* Tensor.contiguous() on tensor data: Copy.forward is id_map.
contiguous(td) == FastOps_map("id", td)

\* View.forward on tensor data: the same storage under a new shape.
view(td, shape) == TensorData(td.storage, shape)

\* FastOps.matrix_multiply, up to the start of the kernel: rank-2 operands are
\* copied and viewed as one batch; out is allocated with the broadcast batch.
matmul_lift(t) ==
    IF Len(t.shape) = 2
    THEN view(contiguous(t), <<1, t.shape[1], t.shape[2]>>)
    ELSE t

matmul_out(a3, b3) ==
    zeros(shape_broadcast(SubSeq(a3.shape, 1, Len(a3.shape) - 2),
                          SubSeq(b3.shape, 1, Len(b3.shape) - 2))
          \o <<Last2(a3.shape), Last(b3.shape)>>)

\* FastOps.matrix_multiply, after the kernel: undo the batch if both were rank 2.
matmul_result(out, a, b) ==
    IF Len(a.shape) = 2 /\ Len(b.shape) = 2
    THEN view(out, <<out.shape[2], out.shape[3]>>)
    ELSE out

\* ------------------------------------------------------------------ Tensor
\* history = None
NoHistory == [kind |-> "none"]
\* ctx = None
NoContext == [kind |-> "none"]
\* grad = None
NoGrad == [kind |-> "none"]

\* History(last_fn, ctx, inputs); History() has last_fn None and no inputs.
History(last_fn, ctx, inputs) ==
    [kind |-> "history", last_fn |-> last_fn, ctx |-> ctx, inputs |-> inputs]

\* Tensor.__init__(v, back): the fields of the new object (its unique_id is
\* the new value of _tensor_count, the key it is stored under).
Tensor(v, back) == [data |-> v, history |-> back, grad |-> NoGrad]

\* Tensor.requires_grad_(x)
requires_grad_(t, x) == [t EXCEPT !.history = History("none", NoContext, <<>>)]

\* Tensor.requires_grad()
requires_grad(t) == t.history.kind # "none"

\* Tensor.is_leaf()
is_leaf(t) == t.history.kind # "none" /\ t.history.last_fn = "none"

\* Tensor.is_constant()
is_constant(t) == t.history.kind = "none"

\* A parents that yields only the first input.
parents_first_only(t) == SubSeq(t.history.inputs, 1, 1)

\* Tensor.parents
parents(t) == t.history.inputs

\* A detach that keeps the history of the tensor it copies.
detach_keeps_history(t) == Tensor(t.data, t.history)

\* Tensor.detach()
detach(t) == Tensor(t.data, NoHistory)

\* Tensor.zero_grad_()
zero_grad_(t) == [t EXCEPT !.grad = NoGrad]

\* Context(no_grad) and Context.save_for_backward
Context(no_grad) == [kind |-> "context", no_grad |-> no_grad, saved_values |-> <<>>]
save_for_backward(ctx, values) ==
    IF ctx.no_grad THEN ctx ELSE [ctx EXCEPT !.saved_values = values]

\* ------------------------------------------------------ tensor_functions
\* The operations dispatched in this model.
Functions == {"Neg", "Add", "Mul"}
\* Operations a caller can define whose backward returns one gradient too few
\* or one too many.
FaultyFunctions == {"AddOneGrad", "NegTwoGrads"}
Arity(fn) == IF fn \in {"Neg", "NegTwoGrads"} THEN 1 ELSE 2

\* cls.forward(ctx, *inps): the output's data and the context it leaves.
forward(fn, ctx, inps) ==
    CASE fn \in {"Neg", "NegTwoGrads"} ->
            [out |-> FastOps_map("neg", inps[1].data), ctx |-> ctx]
      [] fn \in {"Add", "AddOneGrad"} ->
            [out |-> FastOps_zip("add", inps[1].data, inps[2].data), ctx |-> ctx]
      [] fn = "Mul" -> [out |-> FastOps_zip("mul", inps[1].data, inps[2].data),
                        ctx |-> save_for_backward(ctx, <<inps[1].data, inps[2].data>>)]

\* Tensor objects one forward call constructs (the out of the kernel).
forward_made(fn) == 1

\* cls._backward(ctx, grad_out): one gradient per input.
backward(fn, ctx, grad_output) ==
    CASE fn = "Neg" -> <<FastOps_map("neg", grad_output)>>
      [] fn = "NegTwoGrads" -> <<FastOps_map("neg", grad_output), grad_output>>
      [] fn = "Add" -> <<grad_output, grad_output>>
      [] fn = "AddOneGrad" -> <<grad_output>>
      [] fn = "Mul" -> <<FastOps_zip("mul", ctx.saved_values[2], grad_output),
                         FastOps_zip("mul", ctx.saved_values[1], grad_output)>>

\* Tensor objects one backward call constructs.
backward_made(fn) ==
    CASE fn \in {"Neg", "NegTwoGrads"} -> 1
      [] fn \in {"Add", "AddOneGrad"} -> 0
      [] fn = "Mul" -> 2

\* Whether forward runs without a broadcast error.
CanForward(fn, inps) ==
    IF Arity(fn) = 1 THEN TRUE
    ELSE CanBroadcast(inps[1].data.shape, inps[2].data.shape)

\* An apply that records the detached copies as the history's inputs.
Function_apply_raw_inputs(T, count, fn, vals) ==
    LET n == Len(vals)
        raw_vals == [k \in 1..n |-> detach(T[vals[k]])]
        raw_ids == [k \in 1..n |-> count + k]
        need_grad == \E k \in 1..n : requires_grad(T[vals[k]])
        f == forward(fn, Context(~need_grad), raw_vals)
        back == IF need_grad THEN History(fn, f.ctx, raw_ids) ELSE NoHistory
    IN [raw_vals |-> raw_vals, raw_ids |-> raw_ids, need_grad |-> need_grad,
        out |-> Tensor(f.out, back), unique_id |-> count + n + forward_made(fn) + 1]

\* An apply that constructs its result before the detached copies and records
\* the copies as the history's inputs.
Function_apply_result_first(T, count, fn, vals) ==
    LET n == Len(vals)
        raw_vals == [k \in 1..n |-> detach(T[vals[k]])]
        raw_ids == [k \in 1..n |-> count + 1 + k]
        need_grad == \E k \in 1..n : requires_grad(T[vals[k]])
        f == forward(fn, Context(~need_grad), raw_vals)
        back == IF need_grad THEN History(fn, f.ctx, raw_ids) ELSE NoHistory
    IN [raw_vals |-> raw_vals, raw_ids |-> raw_ids, need_grad |-> need_grad,
        out |-> Tensor(f.out, back), unique_id |-> count + 1]

\* Function.apply(*vals): detach each input, run forward, attach the history.
\* T is the tensors held, count the value of _tensor_count at the call.
Function_apply(T, count, fn, vals) ==
    LET n == Len(vals)
        raw_vals == [k \in 1..n |-> detach(T[vals[k]])]
        raw_ids == [k \in 1..n |-> count + k]
        need_grad == \E k \in 1..n : requires_grad(T[vals[k]])
        f == forward(fn, Context(~need_grad), raw_vals)
        back == IF need_grad THEN History(fn, f.ctx, vals) ELSE NoHistory
    IN [raw_vals |-> raw_vals, raw_ids |-> raw_ids, need_grad |-> need_grad,
        out |-> Tensor(f.out, back), unique_id |-> count + n + forward_made(fn) + 1]

\* Tensor objects Function.apply constructs: the copies, forward's, the result.
apply_made(fn) == Arity(fn) + forward_made(fn) + 1

\* -------------------------------------------- Tensor: backprop capabilities
\* ret(a, out) of FastOps.map(fn) with out given, the loop run to its end.
FastOps_map_into(f, a, out) ==
    [out EXCEPT !.storage =
        FoldRange(LAMBDA st, i : map_iter(f, [out EXCEPT !.storage = st], a, i),
                  out.storage, 0, Len(out.storage))]

\* An expand that relabels the broadcast buffer without reducing it.
expand_without_reduce(self, other) ==
    IF self.data.shape = other.shape THEN other
    ELSE LET true_shape == shape_broadcast(self.data.shape, other.shape)
             buf == FastOps_map_into("id", other, zeros(true_shape))
         IN IF self.data.shape = true_shape THEN buf
            ELSE TensorData(buf.storage, self.data.shape)

\* Tensor.expand(other): the gradient `other` brought to self's shape.
expand(self, other) ==
    IF self.data.shape = other.shape THEN other
    ELSE LET true_shape == shape_broadcast(self.data.shape, other.shape)
             buf == FastOps_map_into("id", other, zeros(true_shape))
         IN IF self.data.shape = true_shape THEN buf
            ELSE LET orig_shape == PadLeft(self.data.shape, Len(buf.shape))
                     out == FoldRange(LAMBDA o, dim :
                                          IF orig_shape[dim + 1] = 1 /\ buf.shape[dim + 1] # 1
                                          THEN FastOps_reduce("add", 0, o, dim)
                                          ELSE o,
                                      buf, 0, Len(buf.shape))
                 IN TensorData(out.storage, self.data.shape)

\* Tensor objects expand constructs.
expand_made(self, other) ==
    IF self.data.shape = other.shape THEN 0
    ELSE LET true_shape == shape_broadcast(self.data.shape, other.shape)
             orig_shape == PadLeft(self.data.shape, Len(true_shape))
         IN IF self.data.shape = true_shape THEN 1
            ELSE 2 + Cardinality({d \in 1..Len(true_shape) :
                                    orig_shape[d] = 1 /\ true_shape[d] # 1})

\* A chain_rule without the assertion on the number of gradients.
chain_rule_arity_unchecked(T, v, d_output) == FALSE

\* Tensor.chain_rule(d_output): whether backward returned a number of
\* gradients other than the number of inputs.
chain_rule_arity_mismatch(T, v, d_output) ==
    Len(backward(T[v].history.last_fn, T[v].history.ctx, d_output))
        # Len(T[v].history.inputs)

\* Tensor.chain_rule(d_output): whether one of its assertions fails: no
\* history, no last_fn, or a wrong number of gradients.
chain_rule_raises(T, v, d_output) ==
    IF T[v].history.kind = "none" THEN TRUE
    ELSE IF T[v].history.last_fn = "none" THEN TRUE
    ELSE chain_rule_arity_mismatch(T, v, d_output)

\* the length of zip(s, t)
ZipLen(s, t) == IF Len(s) <= Len(t) THEN Len(s) ELSE Len(t)

\* Tensor.chain_rule(d_output): the (input, contribution) pairs, one per
\* element of zip(h.inputs, x).
chain_rule(T, v, d_output) ==
    LET h == T[v].history
        x == backward(h.last_fn, h.ctx, d_output)
    IN [k \in 1..ZipLen(h.inputs, x) |->
            [var |-> h.inputs[k], deriv |-> expand(T[h.inputs[k]], x[k])]]

\* Tensor objects chain_rule constructs.
chain_rule_made(T, v, d_output) ==
    LET h == T[v].history
        x == backward(h.last_fn, h.ctx, d_output)
    IN backward_made(h.last_fn)
       + SeqSum([k \in 1..ZipLen(h.inputs, x) |-> expand_made(T[h.inputs[k]], x[k])])

\* An accumulate_derivative that stores the contribution in place of the sum.
accumulate_derivative_overwrite(t, x) ==
    [t EXCEPT !.grad = [kind |-> "tensor", data |-> x]]

\* Tensor.accumulate_derivative(x) on a leaf: grad is created as zeros on the
\* first call, then grad = grad + x (Add.apply on two tensors without history).
accumulate_derivative(t, x) ==
    LET grad0 == IF t.grad.kind = "none" THEN zeros(t.data.shape) ELSE t.grad.data
    IN [t EXCEPT !.grad = [kind |-> "tensor", data |-> FastOps_zip("add", grad0, x)]]

\* An accumulate_derivative without the assertion that the tensor is a leaf.
accumulate_derivative_raises_never(t) == FALSE

\* Tensor.accumulate_derivative(x): whether its assertion fails.
accumulate_derivative_raises(t) == ~is_leaf(t)

\* Tensor objects accumulate_derivative constructs.
accumulate_made(t) == (IF t.grad.kind = "none" THEN 1 ELSE 0) + apply_made("Add")

\* ------------------------------------------------------- autodiff engine
\* the ids of s, largest first
RECURSIVE Descending(_)
Descending(S) ==
    IF S = {} THEN <<>>
    ELSE LET m == CHOOSE x \in S : \A y \in S : y <= x
         IN <<m>> \o Descending(S \ {m})

Range(s) == {s[k] : k \in 1..Len(s)}

\* Depth-first post-order from v: a variable is recorded, in front of those
\* recorded before it, only after all its parents; constants are left out.
RECURSIVE Visit(_, _, _), VisitAll(_, _, _)
Visit(T, v, acc) ==
    IF v \in acc.seen \/ is_constant(T[v]) THEN acc
    ELSE LET after == IF is_leaf(T[v]) THEN acc
                      ELSE VisitAll(T, Descending(Range(parents(T[v]))), acc)
         IN [seen |-> after.seen \cup {v}, order |-> <<v>> \o after.order]
VisitAll(T, ps, acc) ==
    IF ps = <<>> THEN acc ELSE VisitAll(T, Tail(ps), Visit(T, Head(ps), acc))

\* topological_sort(variable): the non-constant variables reachable from the
\* root, each before all of its parents.
topological_sort(T, root) == Visit(T, root, [seen |-> {}, order |-> <<>>]).order

\* The accumulator entry of variable p with contribution d added.
add_derivative(derivs, p, d) ==
    IF p \in DOMAIN derivs
    THEN [derivs EXCEPT ![p] = FastOps_zip("add", @, d)]
    ELSE derivs @@ (p :> d)

\* The accumulator after every pair of a chain_rule result is added, in
\* order; contributions to constants are skipped.
RECURSIVE add_all(_, _, _)
add_all(T, derivs, pairs) ==
    IF pairs = <<>> THEN derivs
    ELSE add_all(T,
                 IF is_constant(T[Head(pairs).var]) THEN derivs
                 ELSE add_derivative(derivs, Head(pairs).var, Head(pairs).deriv),
                 Tail(pairs))

\* ---------------------------------------------------------- kernel operands
\* Storage contents used for generated operands: position tags, so that a
\* wrong position read or written shows in the values.
Ramp(n, k) == [p \in 1..n |-> CASE k = 1 -> p [] k = 2 -> 10 * p [] k = 3 -> p + 4]

\* ranks of the generated elementwise and reduce operands
Ranks == {1, 2, 3}

\* every shape of a rank in Ranks with at most n elements
ShapesUpTo(n) == UNION {{s \in SeqsOfLen(1..n, r) : Prod(s) <= n} : r \in Ranks}

\* Tensors a caller can hold: a contiguous tensor, or any permute of one.
OperandsOf(shape, k) ==
    {permute(TensorData(Ramp(Prod(shape), k), shape), o) : o \in Orders(Len(shape))}

Operands(shapes, k) == UNION {OperandsOf(s, k) : s \in shapes}

ZipFns == {"add", "mul", "lt"}

NoKernel == [op |-> "none"]

\* ------------------------------------------------------------- FastOps.zip
\* ret(a, b) of FastOps.zip(fn): allocate out of the broadcast shape and
\* start the parallel loop.
ZipCall ==
    /\ UNCHANGED avars
    /\ kern.op = "none"
    /\ \E f \in ZipFns, a \in Operands(ShapesUpTo(MaxZipSize), 1),
          b \in Operands(ShapesUpTo(MaxZipSize), 2) :
        /\ CanBroadcast(a.shape, b.shape)
        /\ Prod(shape_broadcast(a.shape, b.shape)) <= MaxZipSize
        /\ LET out == zeros(shape_broadcast(a.shape, b.shape))
           IN kern' = [op |-> "zip", fn |-> f, a |-> a, b |-> b, out |-> out,
                       todo |-> 0..(Len(out.storage) - 1),
                       wrote |-> NoWrites(out), read |-> NoWrites(out), pc |-> "loop"]

\* One iteration of the prange loop, in any order.
ZipIter ==
    /\ UNCHANGED avars
    /\ kern.op = "zip"
    /\ kern.pc = "loop"
    /\ \E i \in kern.todo :
        kern' = [kern EXCEPT !.out.storage = zip_iter(kern.fn, kern.out, kern.a, kern.b, i),
                             !.wrote = Written(@, {zip_iter_o(kern.out, kern.a, kern.b, i)}, i),
                             !.todo = @ \ {i}]

\* The loop has ended: ret returns out.
ZipReturn ==
    /\ UNCHANGED avars
    /\ kern.op = "zip"
    /\ kern.pc = "loop"
    /\ kern.todo = {}
    /\ kern' = [kern EXCEPT !.pc = "returned"]

NoBackprop == [root |-> 0]
NoCall == [kind |-> "none"]

\* Nothing constructed, no call in progress.
InitKernel ==
    /\ kern = NoKernel
    /\ tensors = <<>>
    /\ tensor_count = 0
    /\ scalars = <<>>
    /\ var_count = 0
    /\ storages = <<>>
    /\ aliases = <<>>
    /\ pc = "idle"
    /\ bp = NoBackprop
    /\ called = NoCall
    /\ contribs = <<>>

NextZip == ZipCall \/ ZipIter \/ ZipReturn

SpecZip == InitKernel /\ [][NextZip]_vars

\* --------------------------------------------------------------- claim C8
\* C8: FastOps.zip(f)(a, b) has shape shape_broadcast(a.shape, b.shape) and at
\* every output index idx holds f(a[broadcast_index(idx, out_shape, a.shape)],
\* b[broadcast_index(idx, out_shape, b.shape)]), for contiguous and permuted
\* operands alike.
C8_ZipBroadcast ==
    (kern.op = "zip" /\ kern.pc = "returned") =>
        /\ kern.out.shape = shape_broadcast(kern.a.shape, kern.b.shape)
        /\ \A idx \in Indices(kern.out.shape) :
            get(kern.out, idx) =
                fn2(kern.fn,
                    get(kern.a, broadcast_index(idx, kern.out.shape, kern.a.shape)),
                    get(kern.b, broadcast_index(idx, kern.out.shape, kern.b.shape)))

\* a returned zip of a permuted (non-contiguous) operand against a broadcast one
C8_Witness ==
    /\ kern.op = "zip"
    /\ kern.pc = "returned"
    /\ ~is_contiguous(kern.a)
    /\ kern.b.shape # kern.out.shape
    /\ Len(kern.out.storage) > 1

\* ----------------------------------------------------------- FastOps.reduce
ReduceFns == {"add", "mul", "shl"}
ReduceStarts == {0, 1}

\* ret(a, dim) of FastOps.reduce(fn, start): allocate out, fill it with start
\* and start the parallel loop.
ReduceCall ==
    /\ UNCHANGED avars
    /\ kern.op = "none"
    /\ \E f \in ReduceFns, start \in ReduceStarts, a \in Operands(ShapesUpTo(MaxReduceSize), 1) :
        \E dim \in 0..(Len(a.shape) - 1) :
            LET out == reduce_out(a, dim, start)
            IN kern' = [op |-> "reduce", fn |-> f, start |-> start, a |-> a, dim |-> dim,
                        out |-> out, todo |-> 0..(Len(out.storage) - 1),
                        wrote |-> NoWrites(out), read |-> NoWrites(out), pc |-> "loop"]

\* One iteration of the prange loop, in any order.
ReduceIter ==
    /\ UNCHANGED avars
    /\ kern.op = "reduce"
    /\ kern.pc = "loop"
    /\ \E i \in kern.todo :
        kern' = [kern EXCEPT !.out.storage = reduce_iter(kern.fn, kern.out, kern.a, kern.dim, i),
                             !.wrote = Written(@, {reduce_iter_o(kern.out, i)}, i),
                             !.read = Written(@, {reduce_iter_o(kern.out, i)}, i),
                             !.todo = @ \ {i}]

\* The loop has ended: ret returns out.
ReduceReturn ==
    /\ UNCHANGED avars
    /\ kern.op = "reduce"
    /\ kern.pc = "loop"
    /\ kern.todo = {}
    /\ kern' = [kern EXCEPT !.pc = "returned"]

NextReduce == ReduceCall \/ ReduceIter \/ ReduceReturn

SpecReduce == InitKernel /\ [][NextReduce]_vars

\* --------------------------------------------------------------- claim C9
\* the left fold of f from acc over the elements of a along dim, from
\* coordinate t upward, the other coordinates taken from idx
RECURSIVE LeftFoldAlong(_, _, _, _, _, _)
LeftFoldAlong(f, acc, a, dim, idx, t) ==
    IF t >= a.shape[dim + 1] THEN acc
    ELSE LeftFoldAlong(f, fn2(f, acc, get(a, [idx EXCEPT ![dim + 1] = t])), a, dim, idx, t + 1)

\* C9: FastOps.reduce(f, start)(a, dim) has a's shape with dimension dim
\* replaced by 1, and each element is the left fold of f from start over a's
\* elements along dim in increasing index order, whatever a's strides.
C9_ReduceFold ==
    (kern.op = "reduce" /\ kern.pc = "returned") =>
        /\ kern.out.shape = [kern.a.shape EXCEPT ![kern.dim + 1] = 1]
        /\ \A idx \in Indices(kern.out.shape) :
            get(kern.out, idx) = LeftFoldAlong(kern.fn, kern.start, kern.a, kern.dim, idx, 0)

\* the example of the claim: add from 0 along dim 1 of [[1,2,3],[4,5,6]]
C9_Witness ==
    /\ kern.op = "reduce"
    /\ kern.pc = "returned"
    /\ kern.fn = "add" /\ kern.start = 0 /\ kern.dim = 1
    /\ kern.a = TensorData(<<1, 2, 3, 4, 5, 6>>, <<2, 3>>)
    /\ kern.out.shape = <<2, 1>>
    /\ kern.out.storage = <<6, 15>>

\* --------------------------------------------------- FastOps.matrix_multiply
MatDims == 1..MaxMatDim

\* rank-2 and rank-3 operand shapes
MatShapes == SeqsOfLen(MatDims, 2) \cup SeqsOfLen(MatDims, 3)

\* FastOps.matrix_multiply(a, b) up to the start of the parallel loop.
MatMulCall ==
    /\ UNCHANGED avars
    /\ kern.op = "none"
    /\ \E a \in Operands(MatShapes, 1), b \in Operands(MatShapes, 3) :
        LET a3 == matmul_lift(a)
            b3 == matmul_lift(b)
        IN /\ CanBroadcast(SubSeq(a3.shape, 1, 1), SubSeq(b3.shape, 1, 1))
           /\ Last(a3.shape) = Last2(b3.shape)
           /\ LET out == matmul_out(a3, b3)
              IN kern' = [op |-> "matmul", a |-> a, b |-> b, a3 |-> a3, b3 |-> b3,
                          out |-> out, todo |-> 0..(out.shape[1] - 1),
                          wrote |-> NoWrites(out), pc |-> "loop"]

\* One iteration of the prange loop over the batch, in any order.
MatMulBatch ==
    /\ UNCHANGED avars
    /\ kern.op = "matmul"
    /\ kern.pc = "loop"
    /\ \E batch \in kern.todo :
        kern' = [kern EXCEPT !.out.storage = matmul_batch(kern.out, kern.a3, kern.b3, batch),
                             !.wrote = Written(@, matmul_batch_writes(kern.out, kern.a3,
                                                                      kern.b3, batch), batch),
                             !.todo = @ \ {batch}]

\* The loop has ended: the batch dimension is removed if both were rank 2.
MatMulReturn ==
    /\ UNCHANGED avars
    /\ kern.op = "matmul"
    /\ kern.pc = "loop"
    /\ kern.todo = {}
    /\ kern' = [kern EXCEPT !.out = matmul_result(kern.out, kern.a, kern.b),
                            !.pc = "returned"]

NextMatMul == MatMulCall \/ MatMulBatch \/ MatMulReturn

SpecMatMul == InitKernel /\ [][NextMatMul]_vars

\* -------------------------------------------------------------- claim C10
\* operand element [n, i, k]: the batch coordinate is n if the operand has a
\* batch of more than one, 0 if its batch is 1, absent if it has rank 2
BatchGet(t, n, i, k) ==
    IF Len(t.shape) = 2 THEN get(t, <<i, k>>)
    ELSE get(t, <<(IF t.shape[1] > 1 THEN n ELSE 0), i, k>>)

\* sum over k < n of a[n', i, k] * b[n'', k, j]
RECURSIVE DotSum(_, _, _, _, _, _)
DotSum(a, b, n, i, j, k) ==
    IF k = 0 THEN 0
    ELSE DotSum(a, b, n, i, j, k - 1) + BatchGet(a, n, i, k - 1) * BatchGet(b, n, k - 1, j)

\* C10: for a, b of rank 2 or 3 with a.shape[-1] = b.shape[-2] and
\* broadcast-compatible batches, matrix_multiply(a, b)[n, i, j] is the sum over
\* k of a[n', i, k] * b[n'', k, j]; the result has rank 2 exactly when both
\* operands have rank 2.
C10_MatMul ==
    (kern.op = "matmul" /\ kern.pc = "returned") =>
        LET a == kern.a
            b == kern.b
            out == kern.out
            both2 == Len(a.shape) = 2 /\ Len(b.shape) = 2
            inner == Last(a.shape)
        IN /\ (Len(out.shape) = 2) <=> both2
           /\ Len(out.shape) \in {2, 3}
           /\ Last2(out.shape) = Last2(a.shape)
           /\ Last(out.shape) = Last(b.shape)
           /\ \A idx \in Indices(out.shape) :
                LET n == IF both2 THEN 0 ELSE idx[1]
                    i == idx[Len(idx) - 1]
                    j == idx[Len(idx)]
                IN get(out, idx) = DotSum(a, b, n, i, j, inner)

\* the example of the claim: [[1,2],[3,4]] @ [[5,6],[7,8]] = [[19,22],[43,50]]
C10_Witness ==
    /\ kern.op = "matmul"
    /\ kern.pc = "returned"
    /\ kern.a = TensorData(<<1, 2, 3, 4>>, <<2, 2>>)
    /\ kern.b = TensorData(<<5, 6, 7, 8>>, <<2, 2>>)
    /\ kern.out.shape = <<2, 2>>
    /\ kern.out.storage = <<19, 22, 43, 50>>

\* ===================================================== the autodiff machine
\* Values of the tensors the program makes: 2, 3, ...
MakeValues(shape) == [p \in 1..Prod(shape) |-> p + 1]

\* shapes of the tensors made in Spec and SpecGrad, and in SpecOrder
MakeShapes == {<<1>>, <<1, 1>>, <<2>>}
UnitShapes == {<<1>>}

\* the grad_output a caller passes to backward: one of the tensor's shape
GradOutput(shape) == TensorData(Ramp(Prod(shape), 1), shape)

Held == DOMAIN tensors
Contribs(t) == IF t \in DOMAIN contribs THEN contribs[t] ELSE <<>>

\* Tensor.make(storage, shape): a tensor without history.
Make(cap, shapes) ==
    /\ pc = "idle"
    /\ Cardinality(Held) < cap
    /\ \E shape \in shapes :
        LET unique_id == tensor_count + 1
        IN /\ tensors' = tensors @@
                (unique_id :> Tensor(TensorData(MakeValues(shape), shape), NoHistory))
           /\ tensor_count' = unique_id
           /\ called' = [kind |-> "make", out |-> unique_id]
    /\ UNCHANGED <<svars, kern, pc, bp, contribs>>

\* tensor(ls, requires_grad=...), _tensor(...), rand(...): Tensor.make, then
\* requires_grad_(requires_grad) on the new tensor.
TensorFn(cap, shapes) ==
    /\ pc = "idle"
    /\ Cardinality(Held) < cap
    /\ \E shape \in shapes, flag \in BOOLEAN :
        LET unique_id == tensor_count + 1
            made == Tensor(TensorData(MakeValues(shape), shape), NoHistory)
        IN /\ tensors' = tensors @@ (unique_id :> requires_grad_(made, flag))
           /\ tensor_count' = unique_id
           /\ called' = [kind |-> "tensor", out |-> unique_id, requires_grad |-> flag]
    /\ UNCHANGED <<svars, kern, pc, bp, contribs>>

\* t.requires_grad_(x)
RequiresGrad ==
    /\ pc = "idle"
    /\ \E t \in Held, x \in BOOLEAN :
        /\ tensors' = [tensors EXCEPT ![t] = requires_grad_(@, x)]
        /\ called' = [kind |-> "requires_grad_", t |-> t, x |-> x]
    /\ UNCHANGED <<svars, kern, tensor_count, pc, bp, contribs>>

\* cls.apply(*vals) for an operation cls and tensors vals the program holds.
Apply(cap, fns) ==
    /\ pc = "idle"
    /\ Cardinality(Held) < cap
    /\ \E fn \in fns :
        \E vals \in SeqsOfLen(Held, Arity(fn)) :
            /\ CanForward(fn, [k \in 1..Len(vals) |-> tensors[vals[k]]])
            /\ LET r == Function_apply(tensors, tensor_count, fn, vals)
               IN /\ tensors' = tensors @@ (r.unique_id :> r.out)
                  /\ tensor_count' = r.unique_id
                  /\ called' = [kind |-> "apply", fn |-> fn, vals |-> vals,
                                raw_vals |-> r.raw_vals, raw_ids |-> r.raw_ids,
                                out |-> r.unique_id, before |-> tensors]
    /\ UNCHANGED <<svars, kern, pc, bp, contribs>>

\* t.backward() / t.backward(grad_output): the implicit gradient is made only
\* for a tensor of shape (1,); then backpropagate sorts the graph and seeds
\* the accumulator with the root's derivative.
BackwardCall ==
    /\ pc = "idle"
    /\ \E t \in Held, given \in BOOLEAN :
        IF ~given /\ tensors[t].data.shape # <<1>>
        THEN /\ called' = [kind |-> "backward", t |-> t, given |-> given,
                           failed |-> TRUE, before |-> tensors]
             /\ UNCHANGED <<svars, kern, tensors, tensor_count, pc, bp, contribs>>
        ELSE LET grad_output == IF given THEN GradOutput(tensors[t].data.shape)
                                ELSE TensorData(<<1>>, <<1>>)
             IN /\ called' = [kind |-> "backward", t |-> t, given |-> given,
                              failed |-> FALSE, before |-> tensors,
                              d_output |-> grad_output]
                /\ tensor_count' = tensor_count + 1
                /\ bp' = [root |-> t, d_output |-> grad_output,
                          queue |-> topological_sort(tensors, t),
                          derivs |-> (t :> grad_output), crlog |-> <<>>]
                /\ pc' = "backprop"
                /\ UNCHANGED <<svars, kern, tensors, contribs>>

\* backpropagate, one variable of the order: a leaf accumulates its
\* derivative; any other variable hands its derivative to chain_rule and the
\* contributions are added to its parents' entries.
BackpropStep ==
    /\ pc = "backprop"
    /\ bp.queue # <<>>
    /\ LET v == Head(bp.queue)
           d == bp.derivs[v]
       IN IF v \notin DOMAIN bp.derivs
          THEN /\ bp' = [bp EXCEPT !.queue = Tail(@)]
               /\ UNCHANGED <<tensors, tensor_count, contribs>>
          ELSE IF is_leaf(tensors[v])
          THEN /\ tensors' = [tensors EXCEPT ![v] = accumulate_derivative(@, d)]
               /\ tensor_count' = tensor_count + accumulate_made(tensors[v])
               /\ contribs' = [t \in DOMAIN contribs \cup {v} |->
                                  IF t = v THEN Append(Contribs(v), d) ELSE contribs[t]]
               /\ bp' = [bp EXCEPT !.queue = Tail(@)]
          ELSE LET pairs == chain_rule(tensors, v, d)
                   derivs == add_all(tensors, bp.derivs, pairs)
                   added == Cardinality({k \in 1..Len(pairs) : ~is_constant(tensors[pairs[k].var])})
                            - (Cardinality(DOMAIN derivs) - Cardinality(DOMAIN bp.derivs))
               IN /\ bp' = [bp EXCEPT !.queue = Tail(@), !.derivs = derivs,
                                      !.crlog = Append(@, [node |-> v, d_output |-> d])]
                  /\ tensor_count' = tensor_count + chain_rule_made(tensors, v, d)
                                     + added * apply_made("Add")
                  /\ UNCHANGED <<tensors, contribs>>
    /\ UNCHANGED <<svars, kern, pc, called>>

\* backpropagate returns once the order is exhausted.
BackpropReturn ==
    /\ pc = "backprop"
    /\ bp.queue = <<>>
    /\ pc' = "done"
    /\ UNCHANGED <<svars, kern, tensors, tensor_count, bp, called, contribs>>

\* Building and marking tensors and applying operations to them.
Next ==
    \/ Make(MaxTensors, MakeShapes)
    \/ TensorFn(MaxTensors, MakeShapes)
    \/ RequiresGrad
    \/ Apply(MaxTensors, Functions)

Spec == InitKernel /\ [][Next]_vars

\* Building a graph, then one backward call on one of its tensors.
NextBackward ==
    \/ Make(MaxTensors, MakeShapes)
    \/ TensorFn(MaxTensors, MakeShapes)
    \/ Apply(MaxTensors, Functions)
    \/ BackwardCall
    \/ BackpropStep
    \/ BackpropReturn

SpecBackward == InitKernel /\ [][NextBackward]_vars

\* the operations applied in SpecOrder
OrderFunctions == {"Neg", "Mul"}

\* Graphs of one-element tensors, one node more, then one backward call.
NextOrder ==
    \/ Make(MaxNodes, UnitShapes)
    \/ TensorFn(MaxNodes, UnitShapes)
    \/ Apply(MaxNodes, OrderFunctions)
    \/ BackwardCall
    \/ BackpropStep
    \/ BackpropReturn

SpecOrder == InitKernel /\ [][NextOrder]_vars

\* ------------------------------------------------- gradients of one leaf
\* The derivatives handed to accumulate_derivative of a tensor of this shape:
\* of its shape, or of a shape that broadcasts to it.
GradValues(shape) ==
    {TensorData(Ramp(Prod(s), k), s) :
        s \in {g \in MakeShapes : CanBroadcast(shape, g) /\ shape_broadcast(shape, g) = shape},
        k \in {1, 2}}

\* t.accumulate_derivative(x): only a leaf accepts it.
AccumulateDerivative ==
    /\ pc = "idle"
    /\ \E t \in Held :
        \E x \in GradValues(tensors[t].data.shape) :
            IF accumulate_derivative_raises(tensors[t])
            THEN /\ called' = [kind |-> "accumulate_derivative", t |-> t, failed |-> TRUE,
                               grad |-> tensors[t].grad]
                 /\ UNCHANGED <<tensors, tensor_count, contribs>>
            ELSE /\ tensor_count + accumulate_made(tensors[t]) <= MaxTensorCount
                 /\ tensors' = [tensors EXCEPT ![t] = accumulate_derivative(@, x)]
                 /\ tensor_count' = tensor_count + accumulate_made(tensors[t])
                 /\ contribs' = [u \in DOMAIN contribs \cup {t} |->
                                    IF u = t THEN Append(Contribs(t), x) ELSE contribs[u]]
                 /\ called' = [kind |-> "accumulate_derivative", t |-> t, failed |-> FALSE,
                               grad |-> tensors[t].grad]
    /\ UNCHANGED <<svars, kern, pc, bp>>

\* t.zero_grad_()
ZeroGrad ==
    /\ pc = "idle"
    /\ \E t \in Held :
        /\ tensors' = [tensors EXCEPT ![t] = zero_grad_(@)]
        /\ contribs' = [u \in DOMAIN contribs \cup {t} |->
                           IF u = t THEN <<>> ELSE contribs[u]]
        /\ called' = [kind |-> "zero_grad_", t |-> t]
    /\ UNCHANGED <<svars, kern, tensor_count, pc, bp>>

\* Tensors made and marked, their gradients accumulated and cleared.
NextGrad ==
    \/ Make(MaxGradTensors, MakeShapes)
    \/ TensorFn(MaxGradTensors, MakeShapes)
    \/ RequiresGrad
    \/ AccumulateDerivative
    \/ ZeroGrad

SpecGrad == InitKernel /\ [][NextGrad]_vars

\* ================================================================ properties
\* The sum of F over the members of a finite set of ids.
RECURSIVE SetSum(_, _)
SetSum(F(_), S) ==
    IF S = {} THEN 0
    ELSE LET m == CHOOSE x \in S : \A y \in S : y <= x
         IN F(m) + SetSum(F, S \ {m})

\* The tensors reachable backward from the frontier through history inputs.
RECURSIVE Reach(_, _, _)
Reach(T, frontier, seen) ==
    IF frontier = {} THEN seen
    ELSE LET inner == {f \in frontier : T[f].history.kind = "history"}
             nxt == UNION {Range(T[f].history.inputs) : f \in inner}
         IN Reach(T, nxt \ (seen \cup frontier), seen \cup frontier)

\* The tensors reachable from root that list n as a history input.
Consumers(T, root, n) ==
    {c \in Reach(T, {root}, {}) :
        T[c].history.kind = "history" /\ n \in Range(T[c].history.inputs)}

LogPos(log, c) == CHOOSE j \in 1..Len(log) : log[j].node = c

\* What consumer c, given its logged d_output, contributes to n at idx: the
\* sum over the positions at which c lists n.
Contribution(T, log, c, n, idx) ==
    LET pairs == chain_rule(T, c, log[LogPos(log, c)].d_output)
    IN SetSum(LAMBDA k : get(pairs[k].deriv, idx),
              {k \in 1..Len(pairs) : pairs[k].var = n})

\* C1: during backpropagate, chain_rule is invoked on a non-leaf tensor at
\* most once, only after chain_rule was invoked on every tensor reachable
\* from the root that lists it as a history input, and the d_output it gets
\* is the sum of the contributions of all those consumers (plus the seed, for
\* the root).
C1_BackpropOrder ==
    pc \in {"backprop", "done"} =>
        \A i \in 1..Len(bp.crlog) :
            LET n == bp.crlog[i].node
                d == bp.crlog[i].d_output
                cons == Consumers(tensors, bp.root, n)
            IN /\ \A j \in 1..Len(bp.crlog) : j # i => bp.crlog[j].node # n
               /\ \A c \in cons : \E j \in 1..(i - 1) : bp.crlog[j].node = c
               /\ d.shape = tensors[n].data.shape
               /\ \A idx \in Indices(d.shape) :
                    get(d, idx) =
                        (IF n = bp.root THEN get(bp.d_output, idx) ELSE 0)
                        + SetSum(LAMBDA c : Contribution(tensors, bp.crlog, c, n, idx), cons)

\* A finished backward pass over a diamond: chain_rule ran on a non-leaf
\* tensor that two tensors reachable from the root list as an input.
C1_Witness ==
    /\ pc = "done"
    /\ \E i \in 1..Len(bp.crlog) :
        Cardinality(Consumers(tensors, bp.root, bp.crlog[i].node)) >= 2

\* Whether y = x + x for a one-element leaf x whose grad was None, and
\* y.backward() has been called and has returned or failed.
DiamondBackward(y) ==
    /\ called.kind = "backward" /\ called.t = y /\ ~called.given
    /\ pc # "backprop"
    /\ tensors[y].history.kind = "history"
    /\ tensors[y].history.last_fn = "Add"
    /\ LET x == tensors[y].history.inputs[1]
       IN /\ tensors[y].history.inputs = <<x, x>>
          /\ is_leaf(tensors[x])
          /\ size(tensors[x].data) = 1
          /\ called.before[x].grad = NoGrad

\* C2: for a one-element leaf x with grad None and y = x + x, y.backward()
\* leaves x.grad equal to 2.0.
C2_DiamondGradient ==
    \A y \in Held :
        DiamondBackward(y) =>
            LET x == tensors[y].history.inputs[1]
            IN /\ tensors[x].grad.kind = "tensor"
               /\ \A idx \in Indices(tensors[x].data.shape) :
                    get(tensors[x].grad.data, idx) = 2

\* The value at idx of contribution x broadcast to shape.
BroadcastGet(x, shape, idx) ==
    Rd(x.storage, index_to_position(broadcast_index(idx, shape, x.shape), x.strides))

C4_ApplyHistory ==
    called.kind = "apply" =>
        LET out == tensors[called.out]
        IN /\ requires_grad(out) <=>
                \E k \in 1..Len(called.vals) : requires_grad(called.before[called.vals[k]])
           /\ requires_grad(out) =>
                /\ out.history.last_fn = called.fn
                /\ out.history.inputs = called.vals
                /\ Len(out.history.inputs) = Arity(called.fn)

\* An apply to two different tensors of which only the second requires
\* gradient.
C4_Witness ==
    /\ called.kind = "apply"
    /\ Len(called.vals) = 2
    /\ called.vals[1] # called.vals[2]
    /\ ~requires_grad(called.before[called.vals[1]])
    /\ requires_grad(called.before[called.vals[2]])

\* C5: every tensor Function.apply passes to forward is a detached copy (a
\* new tensor with the input's data and history None), and the call leaves
\* the history and grad of each of vals as they were.
C5_ForwardDetached ==
    called.kind = "apply" =>
        \A k \in 1..Len(called.vals) :
            /\ called.raw_vals[k].history = NoHistory
            /\ called.raw_vals[k].data = called.before[called.vals[k]].data
            /\ called.raw_ids[k] \notin DOMAIN called.before
            /\ tensors[called.vals[k]].history = called.before[called.vals[k]].history
            /\ tensors[called.vals[k]].grad = called.before[called.vals[k]].grad

\* An apply to a tensor that is itself the result of an operation.
C5_Witness ==
    /\ called.kind = "apply"
    /\ \E k \in 1..Len(called.vals) :
        /\ called.before[called.vals[k]].history.kind = "history"
        /\ called.before[called.vals[k]].history.last_fn # "none"

\* C6: backward() without grad_output succeeds exactly when the tensor has
\* one element, whatever its rank, and then propagates a unit gradient; when
\* it fails no gradient is changed.
C6_BackwardLegal ==
    (called.kind = "backward" /\ ~called.given) =>
        /\ called.failed <=> size(tensors[called.t].data) # 1
        /\ called.failed => \A t \in Held : tensors[t].grad = called.before[t].grad
        /\ ~called.failed => bp.d_output = TensorData(<<1>>, <<1>>)

\* C7: after t.requires_grad_(x), t.requires_grad() is x; a tensor built by
\* tensor(...), _tensor(...) or rand(...) requires gradient exactly when
\* requires_grad was passed as True.
C7_RequiresGradFlag ==
    /\ called.kind = "requires_grad_" =>
            (requires_grad(tensors[called.t]) <=> called.x)
    /\ called.kind = "tensor" =>
            (requires_grad(tensors[called.out]) <=> called.requires_grad)

\* ============================================================ fast_conv.py
\* A _tensor_conv1d that anchors the weight at the right whatever `reverse`.
conv1d_in_w_anchored_right(reverse, w, kw, k) == w - kw + 1 + k

\* _tensor_conv1d: the input column that tap k of the weight meets at output
\* column w.
conv1d_in_w(reverse, w, kw, k) == IF reverse THEN w - kw + 1 + k ELSE k + w

\* A bounds test that lets positions before the start of the input through.
conv_tap_below_extent(in_w, width) == in_w < width

\* _tensor_conv1d, _tensor_conv2d: whether a tap's input position lies within
\* the input's extent along one axis (0 <= in_w < width).
conv_tap_in_extent(in_w, width) == 0 <= in_w /\ in_w < width

\* _tensor_conv1d: the value computed for out[b, oc, w].
conv1d_value(input, weight, reverse, b, oc, w) ==
    LET in_channels == input.shape[2]
        width == input.shape[3]
        kw == weight.shape[3]
        s1 == input.strides
        s2 == weight.strides
        term(ic, k) ==
            LET in_w == conv1d_in_w(reverse, w, kw, k)
            IN IF conv_tap_in_extent(in_w, width)
               THEN Rd(input.storage, b * s1[1] + ic * s1[2] + in_w * s1[3])
                    * Rd(weight.storage, oc * s2[1] + ic * s2[2] + k * s2[3])
               ELSE 0
        taps(value, ic) == FoldRange(LAMBDA v, k : v + term(ic, k), value, 0, kw)
    IN FoldRange(taps, 0, 0, in_channels)

\* _tensor_conv1d: the storage position of out[b, oc, w].
conv1d_out_idx(out, b, oc, w) ==
    b * out.strides[1] + oc * out.strides[2] + w * out.strides[3]

\* _tensor_conv1d: iteration b of the prange loop, the storage of out after it.
conv1d_batch(out, input, weight, reverse, b) ==
    LET columns(st, oc) ==
            FoldRange(LAMBDA t, w : Wr(t, conv1d_out_idx(out, b, oc, w),
                                       conv1d_value(input, weight, reverse, b, oc, w)),
                      st, 0, out.shape[3])
    IN FoldRange(columns, out.storage, 0, out.shape[2])

\* _tensor_conv1d: the storage positions iteration b writes.
conv1d_batch_writes(out, b) ==
    {conv1d_out_idx(out, b, oc, w) : oc \in 0..(out.shape[2] - 1), w \in 0..(out.shape[3] - 1)}

\* The assertion of _tensor_conv1d on its three shapes.
conv1d_shapes_agree(out, input, weight) ==
    /\ input.shape[1] = out.shape[1]
    /\ input.shape[2] = weight.shape[2]
    /\ out.shape[2] = weight.shape[1]

\* Conv1dFun.forward: the output tensor handed to the kernel.
Conv1dFun_forward_out(input, weight) ==
    zeros(<<input.shape[1], weight.shape[1], input.shape[3]>>)

\* Conv1dFun.backward: grad_weight and its two operands as handed to the kernel.
Conv1dFun_backward_weight_out(input, weight) ==
    zeros(<<input.shape[2], weight.shape[1], weight.shape[3]>>)
Conv1dFun_backward_new_input(input) == permute(input, <<1, 0, 2>>)
Conv1dFun_backward_new_grad_output(grad_output) == permute(grad_output, <<1, 0, 2>>)

\* A backward that returns grad_weight as the kernel left it.
Conv1dFun_backward_grad_weight_as_computed(grad_weight) == grad_weight

\* Conv1dFun.backward: grad_weight as returned.
Conv1dFun_backward_grad_weight(grad_weight) == permute(grad_weight, <<1, 0, 2>>)

\* Conv1dFun.backward: grad_input and the weight as handed to the kernel.
Conv1dFun_backward_input_out(input) ==
    zeros(<<input.shape[1], input.shape[2], input.shape[3]>>)
Conv1dFun_backward_new_weight(weight) == permute(weight, <<1, 0, 2>>)

\* ------------------------------------------------------ conv1d operands
\* Contents of generated convolution operands: all ones (k = 0) or a ramp.
ConvValues(n, k) == IF k = 0 THEN [p \in 1..n |-> 1] ELSE Ramp(n, k)

\* A tensor of this shape: contiguous, or the permute(1, 0, 2) of a
\* contiguous tensor.
ConvOperandsOf(shape, k) ==
    {TensorData(ConvValues(Prod(shape), k), shape),
     permute(TensorData(ConvValues(Prod(shape), k), <<shape[2], shape[1], shape[3]>>),
             <<1, 0, 2>>)}

ConvChannels == 1..MaxConvChannels
ConvInputShapes == {<<b, ic, w>> : b \in ConvChannels, ic \in ConvChannels, w \in 1..MaxConvWidth}
ConvWeightShapes == {<<oc, ic, kw>> : oc \in ConvChannels, ic \in ConvChannels, kw \in 1..MaxConvKernel}
ConvInputs == UNION {ConvOperandsOf(sh, 1) : sh \in ConvInputShapes}
ConvWeights == UNION {ConvOperandsOf(sh, k) : sh \in ConvWeightShapes, k \in {0, 1}}

\* conv1d(input, weight): Conv1dFun.forward up to the start of the parallel loop.
Conv1dForwardCall ==
    /\ UNCHANGED avars
    /\ kern.op = "none"
    /\ \E input \in ConvInputs, weight \in ConvWeights :
        /\ input.shape[2] = weight.shape[2]
        /\ LET out == Conv1dFun_forward_out(input, weight)
           IN /\ conv1d_shapes_agree(out, input, weight)
              /\ kern' = [op |-> "conv1d", mode |-> "forward",
                          input |-> input, weight |-> weight,
                          out |-> out, kin |-> input, kweight |-> weight,
                          reverse |-> FALSE, todo |-> 0..(out.shape[1] - 1),
                          wrote |-> NoWrites(out), pc |-> "loop"]

\* Conv1dFun.backward(ctx, grad_output), with the input and weight saved by
\* forward, up to the start of the first parallel loop (grad_weight).
Conv1dBackwardCall ==
    /\ UNCHANGED avars
    /\ kern.op = "none"
    /\ \E input \in ConvInputs, weight \in ConvWeights :
        /\ input.shape[2] = weight.shape[2]
        /\ \E grad_output \in ConvOperandsOf(Conv1dFun_forward_out(input, weight).shape, 2) :
            LET out == Conv1dFun_backward_weight_out(input, weight)
                new_input == Conv1dFun_backward_new_input(input)
                new_grad_output == Conv1dFun_backward_new_grad_output(grad_output)
            IN /\ conv1d_shapes_agree(out, new_input, new_grad_output)
               /\ kern' = [op |-> "conv1d", mode |-> "backward",
                           input |-> input, weight |-> weight,
                           grad_output |-> grad_output,
                           out |-> out, kin |-> new_input, kweight |-> new_grad_output,
                           reverse |-> FALSE, todo |-> 0..(out.shape[1] - 1),
                           wrote |-> NoWrites(out), pc |-> "loop"]

\* One iteration of the prange loop of _tensor_conv1d, in any order.
Conv1dBatch ==
    /\ UNCHANGED avars
    /\ kern.op = "conv1d"
    /\ kern.pc \in {"loop", "loop_input"}
    /\ \E b \in kern.todo :
        kern' = [kern EXCEPT
                    !.out.storage = conv1d_batch(kern.out, kern.kin, kern.kweight,
                                                 kern.reverse, b),
                    !.wrote = Written(@, conv1d_batch_writes(kern.out, b), b),
                    !.todo = @ \ {b}]

\* Conv1dFun.backward between its two kernel calls: grad_weight is permuted
\* back and the kernel is started on grad_input with reverse = True.
Conv1dBackwardInput ==
    /\ UNCHANGED avars
    /\ kern.op = "conv1d"
    /\ kern.mode = "backward"
    /\ kern.pc = "loop"
    /\ kern.todo = {}
    /\ LET out == Conv1dFun_backward_input_out(kern.input)
           new_weight == Conv1dFun_backward_new_weight(kern.weight)
       IN /\ conv1d_shapes_agree(out, kern.grad_output, new_weight)
          /\ kern' = [op |-> "conv1d", mode |-> "backward",
                      input |-> kern.input, weight |-> kern.weight,
                      grad_output |-> kern.grad_output,
                      grad_weight |-> Conv1dFun_backward_grad_weight(kern.out),
                      out |-> out, kin |-> kern.grad_output, kweight |-> new_weight,
                      reverse |-> TRUE, todo |-> 0..(out.shape[1] - 1),
                      wrote |-> NoWrites(out), pc |-> "loop_input"]

\* The last loop has ended: forward returns output, backward returns
\* (grad_input, grad_weight).
Conv1dReturn ==
    /\ UNCHANGED avars
    /\ kern.op = "conv1d"
    /\ \/ kern.mode = "forward" /\ kern.pc = "loop"
       \/ kern.mode = "backward" /\ kern.pc = "loop_input"
    /\ kern.todo = {}
    /\ kern' = [kern EXCEPT !.pc = "returned"]

NextConv1d ==
    \/ Conv1dForwardCall
    \/ Conv1dBackwardCall
    \/ Conv1dBatch
    \/ Conv1dBackwardInput
    \/ Conv1dReturn

SpecConv1d == InitKernel /\ [][NextConv1d]_vars

\* ------------------------------------------------------- claims C11 - C13
\* The sum of F(i, j) over i in 0..(m - 1) and j in 0..(n - 1).
GridSum(F(_, _), m, n) ==
    LET row(acc, i) == FoldRange(LAMBDA a, j : a + F(i, j), acc, 0, n)
    IN FoldRange(row, 0, 0, m)

\* C11: conv1d of input (batch, in_channels, width) with weight
\* (out_channels, in_channels, kw) has shape (batch, out_channels, width) and
\* out[b, oc, w] is the sum over ic and k with w + k < width of
\* input[b, ic, w + k] * weight[oc, ic, k].
C11_Conv1dForward ==
    (kern.op = "conv1d" /\ kern.mode = "forward" /\ kern.pc = "returned") =>
        LET input == kern.input
            weight == kern.weight
            width == input.shape[3]
        IN /\ kern.out.shape = <<input.shape[1], weight.shape[1], width>>
           /\ \A idx \in Indices(kern.out.shape) :
                get(kern.out, idx) =
                    GridSum(LAMBDA ic, k :
                                IF idx[3] + k < width
                                THEN get(input, <<idx[1], ic, idx[3] + k>>)
                                     * get(weight, <<idx[2], ic, k>>)
                                ELSE 0,
                            input.shape[2], weight.shape[3])

\* the example of the claim: input [1,2,3,4], weight [1,1] gives [3,5,7,4]
C11_Witness ==
    /\ kern.op = "conv1d" /\ kern.mode = "forward" /\ kern.pc = "returned"
    /\ kern.input.shape = <<1, 1, 4>> /\ kern.input.storage = <<1, 2, 3, 4>>
    /\ kern.weight.shape = <<1, 1, 2>> /\ kern.weight.storage = <<1, 1>>
    /\ kern.out.shape = <<1, 1, 4>> /\ kern.out.storage = <<3, 5, 7, 4>>

\* C12: the input gradient returned by Conv1dFun.backward is
\* grad_input[b, ic, x] = sum over oc and k with 0 <= x - k < width of
\* grad_output[b, oc, x - k] * weight[oc, ic, k].
C12_Conv1dGradInput ==
    (kern.op = "conv1d" /\ kern.mode = "backward" /\ kern.pc = "returned") =>
        LET input == kern.input
            weight == kern.weight
            width == input.shape[3]
        IN /\ kern.out.shape = input.shape
           /\ \A idx \in Indices(kern.out.shape) :
                get(kern.out, idx) =
                    GridSum(LAMBDA oc, k :
                                IF 0 <= idx[3] - k /\ idx[3] - k < width
                                THEN get(kern.grad_output, <<idx[1], oc, idx[3] - k>>)
                                     * get(weight, <<oc, idx[2], k>>)
                                ELSE 0,
                            weight.shape[1], weight.shape[3])

\* C13: the weight gradient returned by Conv1dFun.backward has the weight's
\* shape and grad_weight[oc, ic, k] = sum over b and w with w + k < width of
\* grad_output[b, oc, w] * input[b, ic, w + k].
C13_Conv1dGradWeight ==
    (kern.op = "conv1d" /\ kern.mode = "backward" /\ kern.pc \in {"loop_input", "returned"}) =>
        LET input == kern.input
            width == input.shape[3]
        IN /\ kern.grad_weight.shape = kern.weight.shape
           /\ \A idx \in Indices(kern.grad_weight.shape) :
                get(kern.grad_weight, idx) =
                    GridSum(LAMBDA b, w :
                                IF w + idx[3] < width
                                THEN get(kern.grad_output, <<b, idx[1], w>>)
                                     * get(input, <<b, idx[2], w + idx[3]>>)
                                ELSE 0,
                            input.shape[1], width)

\* A returned backward with two batches, two output channels, one input
\* channel and a kernel of width 2: the sums have several terms and the
\* weight's first two dimensions differ.
C13_Witness ==
    /\ kern.op = "conv1d" /\ kern.mode = "backward" /\ kern.pc = "returned"
    /\ kern.input.shape = <<2, 1, 3>>
    /\ kern.weight.shape = <<2, 1, 2>>
    /\ \E idx \in Indices(kern.grad_weight.shape) : get(kern.grad_weight, idx) # 0

\* ============================================================ Tensor.expand
\* The arguments of one call of self.expand(other), self of any generated
\* shape and other contiguous or permuted.
InitExpand ==
    /\ kern = NoKernel
    /\ tensors = <<>>
    /\ tensor_count = 2
    /\ scalars = <<>>
    /\ var_count = 0
    /\ storages = <<>>
    /\ aliases = <<>>
    /\ pc = "idle"
    /\ bp = NoBackprop
    /\ contribs = <<>>
    /\ \E shape \in ShapesUpTo(MaxExpandSize), other \in Operands(ShapesUpTo(MaxExpandSize), 1) :
        called = [kind |-> "expand", pc |-> "call",
                  self |-> Tensor(TensorData(MakeValues(shape), shape), NoHistory),
                  other |-> other]

\* self.expand(other): shape_broadcast raises if the shapes do not broadcast.
ExpandCall ==
    /\ called.kind = "expand"
    /\ called.pc = "call"
    /\ IF called.self.data.shape = called.other.shape
          \/ CanBroadcast(called.self.data.shape, called.other.shape)
       THEN /\ called' = [kind |-> "expand", pc |-> "returned",
                          self |-> called.self, other |-> called.other,
                          out |-> expand(called.self, called.other)]
            /\ tensor_count' = tensor_count + expand_made(called.self, called.other)
       ELSE /\ called' = [kind |-> "expand", pc |-> "raised",
                          self |-> called.self, other |-> called.other]
            /\ UNCHANGED tensor_count
    /\ UNCHANGED <<svars, kern, tensors, pc, bp, contribs>>

NextExpand == ExpandCall

SpecExpand == InitExpand /\ [][NextExpand]_vars

\* ---------------------------------------------------------------- claim C14
\* The sum of other, broadcast to the joint shape, over the joint positions
\* that collapse onto idx of shape.
CollapsedSum(other, shape, idx) ==
    LET joint == shape_broadcast(shape, other.shape)
    IN FoldRange(LAMBDA acc, p :
                    IF broadcast_index(to_index(p, joint), joint, shape) = idx
                    THEN acc + BroadcastGet(other, joint, to_index(p, joint))
                    ELSE acc,
                 0, 0, Prod(joint))

\* C14: when other's shape broadcasts with self's, self.expand(other) has
\* exactly self's shape and each element is the sum of other, broadcast to
\* the joint shape, over the positions that collapse onto it; when the shapes
\* do not broadcast the call fails.
C14_Expand ==
    (called.kind = "expand" /\ called.pc # "call") =>
        LET shape == called.self.data.shape
            other == called.other
        IN IF CanBroadcast(shape, other.shape)
           THEN /\ called.pc = "returned"
                /\ called.out.shape = shape
                /\ \A idx \in Indices(shape) :
                     get(called.out, idx) = CollapsedSum(other, shape, idx)
           ELSE called.pc = "raised"

\* A returned expand that had to sum: other has more elements than self, in
\* a permuted layout.
C14_Witness ==
    /\ called.kind = "expand" /\ called.pc = "returned"
    /\ called.self.data.shape = <<1, 2>>
    /\ called.other.shape = <<2, 2>>
    /\ ~is_contiguous(called.other)

\* ============================================================== Tensor.view
\* A View.forward without the contiguity assertion.
View_forward_unchecked(a, shape) == [raised |-> FALSE, out |-> view(a, shape)]

\* View.forward(ctx, a, shape): the assertion, then the same storage under
\* the new shape.
View_forward(a, shape) ==
    IF is_contiguous(a) THEN [raised |-> FALSE, out |-> view(a, shape)]
    ELSE [raised |-> TRUE]

\* Tensor objects t.view(*shape) constructs: the shape tensor, the two
\* detached copies and, if forward returns, its tensor and apply's result.
view_made(a, shape) == 3 + (IF View_forward(a, shape).raised THEN 0 ELSE 2)

\* The arguments of one call of a.view(*shape): a contiguous or permuted,
\* shape any generated shape with a's number of elements.
InitView ==
    /\ kern = NoKernel
    /\ tensors = <<>>
    /\ tensor_count = 1
    /\ scalars = <<>>
    /\ var_count = 0
    /\ storages = <<>>
    /\ aliases = <<>>
    /\ pc = "idle"
    /\ bp = NoBackprop
    /\ contribs = <<>>
    /\ \E a \in Operands(ShapesUpTo(MaxViewSize), 1) :
        \E shape \in {sh \in ShapesUpTo(MaxViewSize) : Prod(sh) = size(a)} :
            called = [kind |-> "view", pc |-> "call", a |-> a, shape |-> shape]

\* a.view(*shape)
ViewCall ==
    /\ called.kind = "view"
    /\ called.pc = "call"
    /\ LET r == View_forward(called.a, called.shape)
       IN called' = IF r.raised
                    THEN [kind |-> "view", pc |-> "raised",
                          a |-> called.a, shape |-> called.shape]
                    ELSE [kind |-> "view", pc |-> "returned",
                          a |-> called.a, shape |-> called.shape, out |-> r.out]
    /\ tensor_count' = tensor_count + view_made(called.a, called.shape)
    /\ UNCHANGED <<svars, kern, tensors, pc, bp, contribs>>

NextView == ViewCall

SpecView == InitView /\ [][NextView]_vars

\* ---------------------------------------------------------------- claim C15
\* Whether the elements of td are laid out in row-major order: the storage
\* position of every coordinate is its row-major ordinal.
RowMajorLayout(td) ==
    \A p \in 0..(size(td) - 1) :
        index_to_position(to_index(p, td.shape), td.strides) = p

\* C15: view on a tensor whose storage layout is not contiguous fails and
\* returns no tensor.
C15_ViewNonContiguous ==
    (called.kind = "view" /\ called.pc # "call" /\ ~RowMajorLayout(called.a)) =>
        called.pc = "raised"

\* A failed view of a permuted 2 x 2 tensor.
C15_Witness ==
    /\ called.kind = "view" /\ called.pc = "raised"
    /\ called.a.shape = <<2, 2>> /\ called.a.strides = <<1, 2>>
    /\ called.shape = <<4>>

\* ================================================================== Permute
\* Permute.forward(ctx, t1, order): order is saved and t1's data permuted.
Permute_forward(t1, order) == permute(t1, order)

\* A reverse order that repeats the order given.
reverse_order_as_given(order) == order

\* Permute.backward: the indices of order, stably sorted by the value at them.
reverse_order(order) ==
    LET n == Len(order)
        place(i) == Cardinality({j \in 1..n :
                        order[j] < order[i] \/ (order[j] = order[i] /\ j < i)})
    IN [r \in 1..n |-> (CHOOSE i \in 1..n : place(i) = r - 1) - 1]

\* Permute.backward(ctx, grad_output): the gradient for t1.
Permute_backward(order, grad_output) == permute(grad_output, reverse_order(order))

\* The arguments of one t.permute(*order): t contiguous or permuted, order
\* any permutation of its axes.
InitPermute ==
    /\ kern = NoKernel
    /\ tensors = <<>>
    /\ tensor_count = 1
    /\ scalars = <<>>
    /\ var_count = 0
    /\ storages = <<>>
    /\ aliases = <<>>
    /\ pc = "idle"
    /\ bp = NoBackprop
    /\ contribs = <<>>
    /\ \E t \in Operands(ShapesUpTo(MaxViewSize), 1) :
        \E order \in Orders(Len(t.shape)) :
            called = [kind |-> "permute", pc |-> "call", t |-> t, order |-> order]

\* Permute.forward
PermuteForward ==
    /\ called.kind = "permute"
    /\ called.pc = "call"
    /\ called' = [kind |-> "permute", pc |-> "forward",
                  t |-> called.t, order |-> called.order,
                  out |-> Permute_forward(called.t, called.order)]
    /\ tensor_count' = tensor_count + 1
    /\ UNCHANGED <<svars, kern, tensors, pc, bp, contribs>>

\* Permute.backward on a gradient of the output's shape: the output itself,
\* or a fresh contiguous tensor.
PermuteBackward ==
    /\ called.kind = "permute"
    /\ called.pc = "forward"
    /\ \E grad_output \in {called.out,
                           TensorData(Ramp(size(called.out), 2), called.out.shape)} :
        called' = [kind |-> "permute", pc |-> "backward",
                   t |-> called.t, order |-> called.order, out |-> called.out,
                   grad_output |-> grad_output,
                   reverse_order |-> reverse_order(called.order),
                   grad |-> Permute_backward(called.order, grad_output)]
    /\ tensor_count' = tensor_count + 1
    /\ UNCHANGED <<svars, kern, tensors, pc, bp, contribs>>

NextPermute == PermuteForward \/ PermuteBackward

SpecPermute == InitPermute /\ [][NextPermute]_vars

\* ---------------------------------------------------------------- claim C16
\* C16: the order computed in Permute.backward is the inverse of order: the
\* gradient handed back has the input's shape, its element at idx is the
\* element of grad_output at idx permuted by order, and the input permuted by
\* order and then by the computed order has the input's element at every idx.
C16_PermuteInverse ==
    (called.kind = "permute" /\ called.pc = "backward") =>
        LET order == called.order
            n == Len(order)
        IN /\ \A d \in 1..n : order[called.reverse_order[d] + 1] = d - 1
           /\ called.grad.shape = called.t.shape
           /\ \A idx \in Indices(called.t.shape) :
                /\ get(called.grad, idx) =
                        get(called.grad_output, [d \in 1..n |-> idx[order[d] + 1]])
                /\ called.grad_output = called.out =>
                        get(called.grad, idx) = get(called.t, idx)

\* A backward of a permute by a cyclic order of three axes, which is not its
\* own inverse, applied to the permuted tensor.
C16_Witness ==
    /\ called.kind = "permute" /\ called.pc = "backward"
    /\ called.order = <<1, 2, 0>>
    /\ called.t.shape = <<1, 2, 2>>
    /\ called.grad_output = called.out

\* ============================================= the parallel elementwise loops
MapFns == {"id", "neg"}

\* ret(a, out) of FastOps.map(fn): out is allocated with a's shape, or given
\* by the caller with a shape a broadcasts to; then the parallel loop starts.
MapCall ==
    /\ UNCHANGED avars
    /\ kern.op = "none"
    /\ \E f \in MapFns, a \in Operands(ShapesUpTo(MaxZipSize), 1) :
        \E shape \in {a.shape} \cup
                     {sh \in ShapesUpTo(MaxZipSize) :
                        CanBroadcast(sh, a.shape) /\ shape_broadcast(sh, a.shape) = sh} :
            LET out == zeros(shape)
            IN kern' = [op |-> "map", fn |-> f, a |-> a, out |-> out,
                        todo |-> 0..(Len(out.storage) - 1),
                        wrote |-> NoWrites(out), read |-> NoWrites(out), pc |-> "loop"]

\* One iteration of the prange loop of _map, in any order.
MapIter ==
    /\ UNCHANGED avars
    /\ kern.op = "map"
    /\ kern.pc = "loop"
    /\ \E i \in kern.todo :
        kern' = [kern EXCEPT !.out.storage = map_iter(kern.fn, kern.out, kern.a, i),
                             !.wrote = Written(@, {map_iter_o(kern.out, kern.a, i)}, i),
                             !.todo = @ \ {i}]

\* The loop has ended: ret returns out.
MapReturn ==
    /\ UNCHANGED avars
    /\ kern.op = "map"
    /\ kern.pc = "loop"
    /\ kern.todo = {}
    /\ kern' = [kern EXCEPT !.pc = "returned"]

NextMap == MapCall \/ MapIter \/ MapReturn

\* map, zip and reduce calls, the iterations of each loop in any order.
NextPrange == NextMap \/ NextZip \/ NextReduce

SpecPrange == InitKernel /\ [][NextPrange]_vars

\* ---------------------------------------------------------------- claim C17
\* The storage out holds when the iterations run one after the other in
\* loop order.
SequentialOut ==
    CASE kern.op = "map" -> FastOps_map_into(kern.fn, kern.a, zeros(kern.out.shape)).storage
      [] kern.op = "zip" -> FastOps_zip(kern.fn, kern.a, kern.b).storage
      [] kern.op = "reduce" -> FastOps_reduce(kern.fn, kern.start, kern.a, kern.dim).storage

\* C17: in the map, zip and reduce kernels, whatever the order of the prange
\* iterations, no storage position of out is written by two iterations, no
\* iteration reads a position another iteration writes, and when the loop
\* has ended every position has been written by exactly one iteration and
\* out is what sequential execution leaves.
C17_PrangeElementwise ==
    kern.op \in {"map", "zip", "reduce"} =>
        /\ \A p \in DOMAIN kern.wrote :
            /\ Cardinality(kern.wrote[p]) <= 1
            /\ \A i \in kern.read[p] : kern.wrote[p] \subseteq {i}
        /\ kern.todo = {} =>
            /\ \A p \in DOMAIN kern.wrote : Cardinality(kern.wrote[p]) = 1
            /\ kern.out.storage = SequentialOut

\* A finished reduce with three output positions and a fold function that
\* does not commute (its three iterations have run, in some order).
C17_Witness ==
    /\ kern.op = "reduce" /\ kern.pc = "returned"
    /\ Len(kern.out.storage) = 3
    /\ kern.fn = "shl"
    /\ kern.a.shape = <<3, 2>>

\* ================================================================== conv2d
\* _tensor_conv2d: the value computed for out[b, oc, h, w].
conv2d_value(input, weight, reverse, b, oc, h, w) ==
    LET in_channels == input.shape[2]
        height == input.shape[3]
        width == input.shape[4]
        kh == weight.shape[3]
        kw == weight.shape[4]
        s1 == input.strides
        s2 == weight.strides
        term(ic, kh_idx, kw_idx) ==
            LET in_h == IF reverse THEN h - kh + 1 + kh_idx ELSE h + kh_idx
                in_w == IF reverse THEN w - kw + 1 + kw_idx ELSE w + kw_idx
            IN IF conv_tap_in_extent(in_h, height) /\ conv_tap_in_extent(in_w, width)
               THEN Rd(input.storage, b * s1[1] + ic * s1[2] + in_h * s1[3] + in_w * s1[4])
                    * Rd(weight.storage,
                         oc * s2[1] + ic * s2[2] + kh_idx * s2[3] + kw_idx * s2[4])
               ELSE 0
        cols(value, ic, kh_idx) ==
            FoldRange(LAMBDA v, kw_idx : v + term(ic, kh_idx, kw_idx), value, 0, kw)
        rows(value, ic) ==
            FoldRange(LAMBDA v, kh_idx : cols(v, ic, kh_idx), value, 0, kh)
    IN FoldRange(rows, 0, 0, in_channels)

\* A _tensor_conv2d whose output position leaves the batch out.
conv2d_out_idx_without_batch(out, b, oc, h, w) ==
    oc * out.strides[2] + h * out.strides[3] + w * out.strides[4]

\* _tensor_conv2d: the storage position of out[b, oc, h, w].
conv2d_out_idx(out, b, oc, h, w) ==
    b * out.strides[1] + oc * out.strides[2] + h * out.strides[3] + w * out.strides[4]

\* _tensor_conv2d: iteration b of the prange loop, the storage of out after it.
conv2d_batch(out, input, weight, reverse, b) ==
    LET cells(st, oc, h) ==
            FoldRange(LAMBDA t, w : Wr(t, conv2d_out_idx(out, b, oc, h, w),
                                       conv2d_value(input, weight, reverse, b, oc, h, w)),
                      st, 0, out.shape[4])
        planes(st, oc) == FoldRange(LAMBDA t, h : cells(t, oc, h), st, 0, out.shape[3])
    IN FoldRange(planes, out.storage, 0, out.shape[2])

\* _tensor_conv2d: the storage positions iteration b writes.
conv2d_batch_writes(out, b) ==
    {conv2d_out_idx(out, b, oc, h, w) :
        oc \in 0..(out.shape[2] - 1), h \in 0..(out.shape[3] - 1), w \in 0..(out.shape[4] - 1)}

\* Conv2dFun.forward: the output tensor handed to the kernel.
Conv2dFun_forward_out(input, weight) ==
    zeros(<<input.shape[1], weight.shape[1], input.shape[3], input.shape[4]>>)

\* Conv2dFun.backward: the outputs and operands of its two kernel calls.
Conv2dFun_backward_weight_out(input, weight) ==
    zeros(<<input.shape[2], weight.shape[1], weight.shape[3], weight.shape[4]>>)
Conv2dFun_backward_input_out(input) == zeros(input.shape)
Conv2dFun_backward_swap(t) == permute(t, <<1, 0, 2, 3>>)

\* A tensor of this shape: contiguous, or the permute(1, 0, 2, 3) of a
\* contiguous tensor.
Conv2dOperandsOf(shape, k) ==
    {TensorData(ConvValues(Prod(shape), k), shape),
     permute(TensorData(ConvValues(Prod(shape), k),
                        <<shape[2], shape[1], shape[3], shape[4]>>),
             <<1, 0, 2, 3>>)}

Conv2dShapes == SeqsOfLen(1..MaxConv2dChannels, 2) \X SeqsOfLen(1..MaxConv2dSize, 2)
Conv2dInputs == UNION {Conv2dOperandsOf(sh[1] \o sh[2], 1) : sh \in Conv2dShapes}
\* the weights are contiguous; the kernel still meets a permuted weight
\* operand in Conv2dFun.backward
Conv2dWeights ==
    {TensorData(ConvValues(Prod(sh[1] \o sh[2]), 3), sh[1] \o sh[2]) : sh \in Conv2dShapes}

\* conv2d(input, weight): Conv2dFun.forward up to the start of the parallel loop.
Conv2dForwardCall ==
    /\ UNCHANGED avars
    /\ kern.op = "none"
    /\ \E input \in Conv2dInputs, weight \in Conv2dWeights :
        /\ input.shape[2] = weight.shape[2]
        /\ LET out == Conv2dFun_forward_out(input, weight)
           IN /\ conv1d_shapes_agree(out, input, weight)
              /\ kern' = [op |-> "conv2d", mode |-> "forward",
                          input |-> input, weight |-> weight,
                          out |-> out, kin |-> input, kweight |-> weight,
                          reverse |-> FALSE, todo |-> 0..(out.shape[1] - 1),
                          wrote |-> NoWrites(out), pc |-> "loop"]

\* Conv2dFun.backward(ctx, grad_output) up to the start of its first parallel
\* loop (grad_weight).
Conv2dBackwardCall ==
    /\ UNCHANGED avars
    /\ kern.op = "none"
    /\ \E input \in Conv2dInputs, weight \in Conv2dWeights :
        /\ input.shape[2] = weight.shape[2]
        /\ LET grad_output == TensorData(Ramp(size(Conv2dFun_forward_out(input, weight)), 2),
                                         Conv2dFun_forward_out(input, weight).shape)
               out == Conv2dFun_backward_weight_out(input, weight)
               new_input == Conv2dFun_backward_swap(input)
               new_grad_output == Conv2dFun_backward_swap(grad_output)
           IN /\ conv1d_shapes_agree(out, new_input, new_grad_output)
              /\ kern' = [op |-> "conv2d", mode |-> "backward",
                          input |-> input, weight |-> weight,
                          grad_output |-> grad_output,
                          out |-> out, kin |-> new_input, kweight |-> new_grad_output,
                          reverse |-> FALSE, todo |-> 0..(out.shape[1] - 1),
                          wrote |-> NoWrites(out), pc |-> "loop"]

\* One iteration of the prange loop of _tensor_conv2d, in any order.
Conv2dBatch ==
    /\ UNCHANGED avars
    /\ kern.op = "conv2d"
    /\ kern.pc \in {"loop", "loop_input"}
    /\ \E b \in kern.todo :
        kern' = [kern EXCEPT
                    !.out.storage = conv2d_batch(kern.out, kern.kin, kern.kweight,
                                                 kern.reverse, b),
                    !.wrote = Written(@, conv2d_batch_writes(kern.out, b), b),
                    !.todo = @ \ {b}]

\* Conv2dFun.backward between its two kernel calls: grad_weight is permuted
\* back and the kernel is started on grad_input with reverse = True.
Conv2dBackwardInput ==
    /\ UNCHANGED avars
    /\ kern.op = "conv2d"
    /\ kern.mode = "backward"
    /\ kern.pc = "loop"
    /\ kern.todo = {}
    /\ LET out == Conv2dFun_backward_input_out(kern.input)
           new_weight == Conv2dFun_backward_swap(kern.weight)
       IN /\ conv1d_shapes_agree(out, kern.grad_output, new_weight)
          /\ kern' = [op |-> "conv2d", mode |-> "backward",
                      input |-> kern.input, weight |-> kern.weight,
                      grad_output |-> kern.grad_output,
                      grad_weight |-> Conv2dFun_backward_swap(kern.out),
                      out |-> out, kin |-> kern.grad_output, kweight |-> new_weight,
                      reverse |-> TRUE, todo |-> 0..(out.shape[1] - 1),
                      wrote |-> NoWrites(out), pc |-> "loop_input"]

\* The last loop has ended: forward returns output, backward returns
\* (grad_input, grad_weight).
Conv2dReturn ==
    /\ UNCHANGED avars
    /\ kern.op = "conv2d"
    /\ \/ kern.mode = "forward" /\ kern.pc = "loop"
       \/ kern.mode = "backward" /\ kern.pc = "loop_input"
    /\ kern.todo = {}
    /\ kern' = [kern EXCEPT !.pc = "returned"]

NextConv2d ==
    \/ Conv2dForwardCall
    \/ Conv2dBackwardCall
    \/ Conv2dBatch
    \/ Conv2dBackwardInput
    \/ Conv2dReturn

\* matrix multiply and convolution calls, the batches of each loop in any
\* order.
NextBatch == NextMatMul \/ NextConv1d \/ NextConv2d

SpecBatch == InitKernel /\ [][NextBatch]_vars

\* ---------------------------------------------------------------- claim C18
\* The storage out holds when the batches of the loop in progress run one
\* after the other in loop order.
SequentialBatches ==
    LET start == zeros(kern.out.shape)
        n == start.shape[1]
    IN CASE kern.op = "matmul" ->
                LET out3 == matmul_out(kern.a3, kern.b3)
                IN FoldRange(LAMBDA st, b : matmul_batch([out3 EXCEPT !.storage = st],
                                                         kern.a3, kern.b3, b),
                             out3.storage, 0, out3.shape[1])
         [] kern.op = "conv1d" ->
                FoldRange(LAMBDA st, b : conv1d_batch([start EXCEPT !.storage = st],
                                                      kern.kin, kern.kweight, kern.reverse, b),
                          start.storage, 0, n)
         [] kern.op = "conv2d" ->
                FoldRange(LAMBDA st, b : conv2d_batch([start EXCEPT !.storage = st],
                                                      kern.kin, kern.kweight, kern.reverse, b),
                          start.storage, 0, n)

\* C18: in the matrix multiply and convolution kernels, whatever the order of
\* the prange iterations over the batch, no storage position of out is
\* written by two batches, and when the loop has ended every position has
\* been written by exactly one batch and out is what sequential execution
\* leaves.
C18_PrangeBatch ==
    kern.op \in {"matmul", "conv1d", "conv2d"} =>
        /\ \A p \in DOMAIN kern.wrote : Cardinality(kern.wrote[p]) <= 1
        /\ kern.todo = {} =>
            /\ \A p \in DOMAIN kern.wrote : Cardinality(kern.wrote[p]) = 1
            /\ kern.out.storage = SequentialBatches

\* A finished 2-D convolution over two batches and two output channels.
C18_Witness ==
    /\ kern.op = "conv2d" /\ kern.pc = "returned"
    /\ kern.out.shape = <<2, 2, 2, 2>>
    /\ \A p \in DOMAIN kern.wrote : Cardinality(kern.wrote[p]) = 1

\* ======================================================== Tensor.chain_rule
\* shapes of the tensors made in SpecChain
ChainShapes == {<<1>>, <<2>>}

\* t.chain_rule(d_output) for a tensor the program holds and a d_output of
\* its shape; no further call is considered after it.
ChainRuleCall ==
    /\ pc = "idle"
    /\ \E t \in Held :
        LET d_output == GradOutput(tensors[t].data.shape)
        IN IF chain_rule_raises(tensors, t, d_output)
           THEN /\ called' = [kind |-> "chain_rule", t |-> t, d_output |-> d_output,
                              raised |-> TRUE]
                /\ tensor_count' =
                        tensor_count
                        + (IF tensors[t].history.kind = "history"
                              /\ tensors[t].history.last_fn # "none"
                           THEN backward_made(tensors[t].history.last_fn) ELSE 0)
           ELSE /\ called' = [kind |-> "chain_rule", t |-> t, d_output |-> d_output,
                              raised |-> FALSE,
                              pairs |-> chain_rule(tensors, t, d_output)]
                /\ tensor_count' = tensor_count + chain_rule_made(tensors, t, d_output)
    /\ pc' = "done"
    /\ UNCHANGED <<svars, kern, tensors, bp, contribs>>

\* Building a graph, with operations whose backward is faulty among the
\* others, then one chain_rule call.
NextChain ==
    \/ Make(MaxChainTensors, ChainShapes)
    \/ TensorFn(MaxChainTensors, ChainShapes)
    \/ Apply(MaxChainTensors, Functions \cup FaultyFunctions)
    \/ ChainRuleCall

SpecChain == InitKernel /\ [][NextChain]_vars

\* ---------------------------------------------------------------- claim C19
\* the number of gradients the backward rule of a faulty or sound operation
\* returns
GradientsReturned(fn) ==
    CASE fn \in {"Neg", "AddOneGrad"} -> 1
      [] fn \in {"Add", "Mul", "NegTwoGrads"} -> 2

\* C19: chain_rule on the result of an operation returns one (input,
\* contribution) pair per history input, in input order, each contribution of
\* its input's shape; if the backward rule returns a number of gradients
\* other than the number of inputs it fails and returns no pairs.
C19_ChainRuleArity ==
    (/\ called.kind = "chain_rule"
     /\ tensors[called.t].history.kind = "history"
     /\ tensors[called.t].history.last_fn # "none") =>
        LET h == tensors[called.t].history
        IN IF GradientsReturned(h.last_fn) = Len(h.inputs)
           THEN /\ ~called.raised
                /\ Len(called.pairs) = Len(h.inputs)
                /\ \A k \in 1..Len(h.inputs) :
                    /\ called.pairs[k].var = h.inputs[k]
                    /\ called.pairs[k].deriv.shape = tensors[h.inputs[k]].data.shape
           ELSE called.raised

\* chain_rule on a sum of two different tensors of different shapes, so that
\* one contribution had to be reduced to its input's shape.
C19_Witness ==
    /\ called.kind = "chain_rule" /\ ~called.raised
    /\ Len(called.pairs) = 2
    /\ called.pairs[1].var # called.pairs[2].var
    /\ called.pairs[1].deriv.shape # called.pairs[2].deriv.shape

\* ====================================== accumulate_derivative on a non-leaf
\* Scalar.is_leaf()
Scalar_is_leaf(s) == s.history.kind # "none" /\ s.history.last_fn = "none"

\* Scalar.accumulate_derivative(x): whether its assertion fails.
Scalar_accumulate_derivative_raises(s) == ~Scalar_is_leaf(s)

\* Scalar.accumulate_derivative(x) on a leaf: derivative starts from 0.0 when
\* it is None, then derivative = derivative + x.
Scalar_accumulate_derivative(s, x) ==
    LET derivative0 == IF s.derivative.kind = "none" THEN 0 ELSE s.derivative.value
    IN [s EXCEPT !.derivative = [kind |-> "float", value |-> derivative0 + x]]

\* The scalars accumulate_derivative is called on: constants (history None),
\* leaves (ScalarHistory()) and results of an operation, with a derivative of
\* None or a number.
Scalars ==
    [data : {3},
     history : {[kind |-> "none", last_fn |-> "none"],
                [kind |-> "history", last_fn |-> "none"],
                [kind |-> "history", last_fn |-> "Mul"]},
     derivative : {[kind |-> "none", value |-> 0],
                   [kind |-> "float", value |-> 5]}]

\* s.accumulate_derivative(x) for a scalar s: only a leaf accepts it.
ScalarAccumulateDerivative ==
    /\ pc = "idle"
    /\ \E s \in Scalars, x \in {-1, 2} :
        called' = IF Scalar_accumulate_derivative_raises(s)
                  THEN [kind |-> "Scalar.accumulate_derivative", self |-> s, x |-> x,
                        failed |-> TRUE, after |-> s]
                  ELSE [kind |-> "Scalar.accumulate_derivative", self |-> s, x |-> x,
                        failed |-> FALSE, after |-> Scalar_accumulate_derivative(s, x)]
    /\ UNCHANGED <<svars, kern, tensors, tensor_count, pc, bp, contribs>>

\* Tensors made and produced by operations, gradients accumulated on any of
\* them; derivatives accumulated on scalars.
NextLeaf ==
    \/ Make(MaxGradTensors, UnitShapes)
    \/ TensorFn(MaxGradTensors, UnitShapes)
    \/ Apply(MaxLeafTensors, {"Neg", "Mul"})
    \/ AccumulateDerivative
    \/ ScalarAccumulateDerivative

SpecLeaf == InitKernel /\ [][NextLeaf]_vars

\* ---------------------------------------------------------------- claim C20
\* C20: accumulate_derivative on a tensor or scalar that is not a leaf (no
\* history, or a history with a producing operation) fails and leaves that
\* variable's grad (derivative) as it was.
C20_NonLeafAccumulate ==
    /\ (called.kind = "accumulate_derivative"
        /\ (\/ tensors[called.t].history.kind = "none"
            \/ tensors[called.t].history.last_fn # "none")) =>
            /\ called.failed
            /\ tensors[called.t].grad = called.grad
    /\ (called.kind = "Scalar.accumulate_derivative"
        /\ (\/ called.self.history.kind = "none"
            \/ called.self.history.last_fn # "none")) =>
            /\ called.failed
            /\ called.after.derivative = called.self.derivative

\* A failed call on the product of a leaf that already holds a gradient.
C20_Witness ==
    /\ called.kind = "accumulate_derivative" /\ called.failed
    /\ tensors[called.t].history.kind = "history"
    /\ tensors[called.t].history.last_fn = "Mul"
    /\ \E u \in Range(tensors[called.t].history.inputs) :
            tensors[u].grad.kind = "tensor"

\* ================================================== unique ids of variables
\* A constructor that hands out the counter's value without advancing it.
next_unique_id_reused(count) == count

\* Tensor.__init__ / Scalar.__post_init__: the counter is incremented and its
\* new value is the object's unique_id.
next_unique_id(count) == count + 1

NoDerivative == [kind |-> "none", value |-> 0]
NoScalarHistory == [kind |-> "none", last_fn |-> "none", inputs |-> <<>>]

\* ScalarHistory(last_fn, ctx, inputs)
ScalarHistory(last_fn, inputs) ==
    [kind |-> "history", last_fn |-> last_fn, inputs |-> inputs]

\* Scalar(data, history)
Scalar(data, history) ==
    [data |-> data, history |-> history, derivative |-> NoDerivative]

\* Scalar.is_constant()
Scalar_is_constant(s) == s.history.kind = "none"

HeldScalars == DOMAIN scalars

\* the number of inputs of a scalar operation
ScalarArity(fn) == IF fn = "Mul" THEN 2 ELSE 1

\* the histories a Scalar is constructed with: None, ScalarHistory(), or the
\* history of one of the operations fns on scalars the program holds
ScalarHistories(fns) ==
    {NoScalarHistory, ScalarHistory("none", <<>>)}
    \cup UNION {{ScalarHistory(fn, inputs) : inputs \in SeqsOfLen(HeldScalars, ScalarArity(fn))} :
                    fn \in fns}

\* Scalar(v, history): __post_init__ takes the next _var_count as unique_id.
ScalarInit(cap, fns) ==
    /\ pc = "idle"
    /\ Cardinality(HeldScalars) < cap
    /\ \E data \in {3}, history \in ScalarHistories(fns) :
        LET unique_id == next_unique_id(var_count)
        IN /\ scalars' = scalars @@ (unique_id :> Scalar(data, history))
           /\ var_count' = unique_id
           /\ called' = [kind |-> "Scalar", out |-> unique_id, count |-> var_count]
    /\ UNCHANGED <<kern, tensors, tensor_count, pc, bp, contribs, storages, aliases>>

\* t.detach() for a tensor the program holds.
Detach(cap) ==
    /\ pc = "idle"
    /\ Cardinality(Held) < cap
    /\ \E t \in Held :
        LET unique_id == next_unique_id(tensor_count)
        IN /\ tensors' = tensors @@ (unique_id :> detach(tensors[t]))
           /\ tensor_count' = unique_id
           /\ called' = [kind |-> "detach", t |-> t, out |-> unique_id,
                         count |-> tensor_count]
    /\ UNCHANGED <<svars, kern, pc, bp, contribs>>

\* Tensors constructed, marked, detached and produced by operations, and
\* scalars constructed, in any order.
NextIds ==
    \/ Make(MaxIdTensors, UnitShapes)
    \/ TensorFn(MaxIdTensors, UnitShapes)
    \/ RequiresGrad
    \/ Apply(MaxIdTensors, OrderFunctions)
    \/ Detach(MaxIdTensors)
    \/ ScalarInit(MaxIdScalars, {})

SpecIds == InitKernel /\ [][NextIds]_vars

\* ---------------------------------------------------------------- claim C21
\* C21: every Tensor (those made by detach and by Function.apply included) and
\* every Scalar gets a unique_id greater than that of every object of its kind
\* constructed before: the id of the newest object is the counter's value,
\* above the counter's value before the call and above every other id held,
\* and no id held exceeds its counter.
C21_UniqueIds ==
    /\ \A id \in Held : id >= 1 /\ id <= tensor_count
    /\ \A id \in HeldScalars : id >= 1 /\ id <= var_count
    /\ called.kind \in {"make", "tensor", "detach", "apply"} =>
            /\ called.out = tensor_count
            /\ \A id \in Held \ {called.out} : id < called.out
    /\ called.kind = "detach" =>
            /\ called.out > called.count
            /\ \A id \in Held \ {called.out} : id <= called.count
    /\ called.kind = "apply" =>
            \A k \in DOMAIN called.raw_ids :
                /\ called.raw_ids[k] < called.out
                /\ \A id \in DOMAIN called.before : id < called.raw_ids[k]
                /\ \A j \in DOMAIN called.raw_ids : j < k => called.raw_ids[j] < called.raw_ids[k]
    /\ called.kind = "Scalar" =>
            /\ called.out = var_count
            /\ called.out > called.count
            /\ \A id \in HeldScalars \ {called.out} : id <= called.count

\* A detached copy of the result of an operation, next to two scalars.
C21_Witness ==
    /\ called.kind = "detach"
    /\ tensors[called.t].history.kind = "history"
    /\ tensors[called.t].history.last_fn # "none"
    /\ Cardinality(HeldScalars) = 2

\* ============================================== tensors sharing one buffer
\* A View.forward that copies the storage it is given into a buffer of its own.
View_forward_storage_copied(a, fresh) == fresh

\* View.forward: the storage handed to Tensor.make is a's own (a._tensor._storage).
View_forward_storage(a, fresh) == a.storage

\* the tensor data of an alias with the contents of its buffer in place of the
\* handle
Deref(td) == [td EXCEPT !.storage = storages[td.storage]]

\* the handle of the next buffer allocated
FreshStorage == Cardinality(DOMAIN storages) + 1

HeldAliases == DOMAIN aliases

\* the place of the next tensor among those held
NextAlias_ == Cardinality(HeldAliases) + 1

\* the shapes of the tensors of SpecAlias: all of two elements
AliasShapes == {<<2>>, <<1, 2>>, <<2, 1>>}

\* One tensor made by tensor(ls), with a buffer of its own; every other
\* tensor of SpecAlias is derived from those held.
InitAlias ==
    /\ kern = NoKernel
    /\ tensors = <<>>
    /\ tensor_count = 1
    /\ scalars = <<>>
    /\ var_count = 0
    /\ pc = "idle"
    /\ bp = NoBackprop
    /\ contribs = <<>>
    /\ called = [kind |-> "tensor", out |-> 1, requires_grad |-> FALSE]
    /\ \E shape \in AliasShapes :
        /\ storages = (1 :> MakeValues(shape))
        /\ aliases = (1 :> [data |-> TensorData(1, shape), family |-> 1])

\* t.detach(): a Tensor around the same TensorData.
AliasDetach ==
    /\ Cardinality(HeldAliases) < MaxAliasTensors
    /\ tensor_count + 1 <= MaxTensorCount
    /\ \E t \in HeldAliases :
        /\ aliases' = aliases @@ (NextAlias_ :> aliases[t])
        /\ called' = [kind |-> "detach", out |-> NextAlias_]
    /\ tensor_count' = next_unique_id(tensor_count)
    /\ UNCHANGED <<kern, tensors, pc, bp, contribs, scalars, var_count, storages>>

\* t.view(*shape): View.apply; fails on a tensor that is not contiguous.
AliasView ==
    /\ Cardinality(HeldAliases) < MaxAliasTensors
    /\ \E t \in HeldAliases :
        \E shape \in {sh \in AliasShapes : Prod(sh) = size(aliases[t].data)} :
            LET a == aliases[t].data
                storage == View_forward_storage(a, FreshStorage)
            IN /\ tensor_count + view_made(a, shape) <= MaxTensorCount
               /\ tensor_count' = tensor_count + view_made(a, shape)
               /\ IF View_forward(a, shape).raised
                  THEN /\ called' = [kind |-> "view", pc |-> "raised"]
                       /\ UNCHANGED <<aliases, storages>>
                  ELSE /\ called' = [kind |-> "view", pc |-> "returned",
                                     out |-> NextAlias_]
                       /\ storages' = IF storage \in DOMAIN storages THEN storages
                                      ELSE storages @@ (storage :> storages[a.storage])
                       /\ aliases' = aliases @@
                            (NextAlias_ :> [data |-> TensorData(storage, shape),
                                            family |-> aliases[t].family])
    /\ UNCHANGED <<kern, tensors, pc, bp, contribs, scalars, var_count>>

\* t.permute(*order) for an order that moves an axis: Permute.apply; the same
\* storage under reordered shape and strides.
AliasPermute ==
    /\ Cardinality(HeldAliases) < MaxAliasTensors
    /\ tensor_count + 5 <= MaxTensorCount
    /\ \E t \in HeldAliases :
        \E order \in {o \in Orders(Len(aliases[t].data.shape)) : \E d \in DOMAIN o : o[d] # d - 1} :
            /\ aliases' = aliases @@
                    (NextAlias_ :> [data |-> Permute_forward(aliases[t].data, order),
                                    family |-> NextAlias_])
            /\ called' = [kind |-> "permute", out |-> NextAlias_]
    /\ tensor_count' = tensor_count + 5
    /\ UNCHANGED <<kern, tensors, pc, bp, contribs, scalars, var_count, storages>>

\* t.contiguous(): Copy.apply; id_map writes t's elements into the buffer of
\* a new tensor of zeros.
AliasContiguous ==
    /\ Cardinality(HeldAliases) < MaxAliasTensors
    /\ tensor_count + 3 <= MaxTensorCount
    /\ \E t \in HeldAliases :
        LET out == contiguous(Deref(aliases[t].data))
        IN /\ storages' = storages @@ (FreshStorage :> out.storage)
           /\ aliases' = aliases @@
                (NextAlias_ :> [data |-> [out EXCEPT !.storage = FreshStorage],
                                family |-> NextAlias_])
           /\ called' = [kind |-> "contiguous", out |-> NextAlias_]
    /\ tensor_count' = tensor_count + 3
    /\ UNCHANGED <<kern, tensors, pc, bp, contribs, scalars, var_count>>

\* the values written by t[key] = val
SetValues == {7}

\* t[key] = val: TensorData.set writes the buffer at the position of key.
SetItem ==
    /\ \E t \in HeldAliases :
        \E key \in Indices(aliases[t].data.shape), val \in SetValues :
            LET td == aliases[t].data
            IN /\ storages' = [storages EXCEPT ![td.storage] =
                                    Wr(@, index_to_position(key, td.strides), val)]
               /\ called' = [kind |-> "setitem", t |-> t, key |-> key, val |-> val,
                             before |-> storages]
    /\ UNCHANGED <<kern, tensors, tensor_count, pc, bp, contribs, scalars, var_count,
                   aliases>>

NextAlias ==
    \/ AliasDetach
    \/ AliasView
    \/ AliasPermute
    \/ AliasContiguous
    \/ SetItem

SpecAlias == InitAlias /\ [][NextAlias]_vars

\* ---------------------------------------------------------------- claim C22
\* the element of alias t of buffers S at row-major position p
ReadAt(S, t, p) ==
    LET td == aliases[t].data
    IN Rd(S[td.storage], index_to_position(to_index(p, td.shape), td.strides))

\* C22: tensors obtained from one another by detach() and view() read the same
\* value at every row-major position after any writes, and a write through one
\* of them reads back through each; a tensor made by contiguous() has a buffer
\* no other tensor has, and a write changes no element of a tensor with
\* another buffer.
C22_SharedBuffer ==
    /\ \A t, u \in HeldAliases :
            aliases[t].family = aliases[u].family =>
                \A p \in 0..(size(aliases[t].data) - 1) :
                    ReadAt(storages, t, p) = ReadAt(storages, u, p)
    /\ called.kind = "setitem" =>
            /\ get(Deref(aliases[called.t].data), called.key) = called.val
            /\ \A u \in HeldAliases :
                    aliases[u].data.storage # aliases[called.t].data.storage =>
                        \A p \in 0..(size(aliases[u].data) - 1) :
                            ReadAt(storages, u, p) = ReadAt(called.before, u, p)
    /\ called.kind = "contiguous" =>
            \A u \in HeldAliases \ {called.out} :
                aliases[u].data.storage # aliases[called.out].data.storage

\* A write through a view of another shape than the tensor it was taken from,
\* while a contiguous() copy of that tensor is held.
C22_Witness ==
    /\ called.kind = "setitem"
    /\ \E t, c \in HeldAliases :
        /\ t # called.t
        /\ aliases[t].family = aliases[called.t].family
        /\ aliases[t].data.shape # aliases[called.t].data.shape
        /\ aliases[c].family = c /\ c # aliases[t].family
        /\ aliases[c].data.storage # aliases[t].data.storage
        /\ storages[aliases[c].data.storage] # storages[aliases[t].data.storage]

\* ============================================================ View.backward
\* View.backward(ctx, grad_output): Tensor.make on grad_output's storage with
\* the saved shape of the input.
View_backward(original, grad_output) == TensorData(grad_output.storage, original)

\* The arguments of one call of View.backward after a.view(*shape): the shape
\* of a saved by forward, and a grad_output of the viewed shape, contiguous or
\* permuted.
InitViewBackward ==
    /\ kern = NoKernel
    /\ tensors = <<>>
    /\ tensor_count = 1
    /\ scalars = <<>>
    /\ var_count = 0
    /\ storages = <<>>
    /\ aliases = <<>>
    /\ pc = "idle"
    /\ bp = NoBackprop
    /\ contribs = <<>>
    /\ \E original \in ShapesUpTo(MaxViewSize) :
        \E grad_output \in Operands(ShapesUpTo(MaxViewSize), 1) :
            /\ size(grad_output) = Prod(original)
            /\ called = [kind |-> "View.backward", pc |-> "call",
                         original |-> original, grad_output |-> grad_output]

\* View.backward(ctx, grad_output)
ViewBackward ==
    /\ called.kind = "View.backward"
    /\ called.pc = "call"
    /\ called' = [kind |-> "View.backward", pc |-> "returned",
                  original |-> called.original, grad_output |-> called.grad_output,
                  out |-> View_backward(called.original, called.grad_output)]
    /\ tensor_count' = tensor_count + 1
    /\ UNCHANGED <<svars, kern, tensors, pc, bp, contribs>>

NextViewBackward == ViewBackward

SpecViewBackward == InitViewBackward /\ [][NextViewBackward]_vars

\* ---------------------------------------------------------------- claim C23
\* C23: the gradient View.backward returns has the shape of the original input
\* and, at each row-major position, the element grad_output has at that
\* row-major position, whether grad_output is contiguous or not.
C23_ViewBackward ==
    (called.kind = "View.backward" /\ called.pc = "returned") =>
        /\ called.out.shape = called.original
        /\ \A p \in 0..(Prod(called.original) - 1) :
            get(called.out, to_index(p, called.original))
            = get(called.grad_output, to_index(p, called.grad_output.shape))

\* ============================================= Tensor.permute / Tensor.view
\* tensor(ls) for a list of numbers: Tensor.make, then requires_grad_(False).
tensor_of_list(ls) ==
    requires_grad_(Tensor(TensorData(ls, <<Len(ls)>>), NoHistory), FALSE)

\* t.permute(*order): Permute.apply(t, tensor(list(order))). The order tensor
\* stays referenced by the history of the result.
TensorPermute(cap) ==
    /\ pc = "idle"
    /\ Cardinality(Held) + 2 <= cap
    /\ \E t \in Held :
        \E order \in Orders(Len(tensors[t].data.shape)) :
            LET order_id == tensor_count + 1
                order_t == tensor_of_list(order)
                need_grad == requires_grad(tensors[t]) \/ requires_grad(order_t)
                ctx == save_for_backward(Context(~need_grad), <<order>>)
                back == IF need_grad THEN History("Permute", ctx, <<t, order_id>>)
                        ELSE NoHistory
                unique_id == tensor_count + 5
            IN /\ tensors' = tensors @@ (order_id :> order_t)
                    @@ (unique_id :> Tensor(Permute_forward(tensors[t].data, order), back))
               /\ tensor_count' = unique_id
               /\ called' = [kind |-> "permute", t |-> t, raised |-> FALSE,
                             out |-> unique_id]
    /\ UNCHANGED <<svars, kern, pc, bp, contribs>>

\* t.view(*shape): View.apply(t, tensor(list(shape))); View.forward fails on a
\* tensor that is not contiguous.
TensorView(cap, shapes) ==
    /\ pc = "idle"
    /\ Cardinality(Held) + 2 <= cap
    /\ \E t \in Held :
        \E shape \in {sh \in shapes : Prod(sh) = size(tensors[t].data)} :
            LET shape_id == tensor_count + 1
                shape_t == tensor_of_list(shape)
                need_grad == requires_grad(tensors[t]) \/ requires_grad(shape_t)
                ctx == save_for_backward(Context(~need_grad), <<tensors[t].data.shape>>)
                back == IF need_grad THEN History("View", ctx, <<t, shape_id>>)
                        ELSE NoHistory
                r == View_forward(tensors[t].data, shape)
                unique_id == tensor_count + view_made(tensors[t].data, shape)
            IN /\ tensor_count' = unique_id
               /\ IF r.raised
                  THEN /\ tensors' = tensors @@ (shape_id :> shape_t)
                       /\ called' = [kind |-> "view", t |-> t, raised |-> TRUE]
                  ELSE /\ tensors' = tensors @@ (shape_id :> shape_t)
                                        @@ (unique_id :> Tensor(r.out, back))
                       /\ called' = [kind |-> "view", t |-> t, raised |-> FALSE,
                                     out |-> unique_id]
    /\ UNCHANGED <<svars, kern, pc, bp, contribs>>

\* Tensors made, then permuted and viewed.
NextShapeOps ==
    \/ Make(MaxShapeOpTensors, MakeShapes)
    \/ TensorFn(MaxShapeOpTensors, MakeShapes)
    \/ TensorPermute(MaxShapeOpTensors)
    \/ TensorView(MaxShapeOpTensors, MakeShapes)

SpecShapeOps == InitKernel /\ [][NextShapeOps]_vars

\* ---------------------------------------------------------------- claim C24
\* C24: permute(...) or view(...) of a tensor that does not require gradient
\* returns a tensor that does not require gradient.
C24_ShapeOpNoGrad ==
    (/\ called.kind \in {"permute", "view"}
     /\ ~called.raised
     /\ ~requires_grad(tensors[called.t])) =>
        ~requires_grad(tensors[called.out])

\* ================================ FastOps.matrix_multiply on rank-4 operands
\* operand shapes with two leading batch dimensions
MatShapes4 == SeqsOfLen(MatDims, 4)

\* FastOps.matrix_multiply(a, b) for contiguous rank-4 operands, up to the
\* start of the parallel loop.
MatMul4Call ==
    /\ UNCHANGED avars
    /\ kern.op = "none"
    /\ \E sa \in MatShapes4, sb \in MatShapes4 :
        LET a == TensorData(Ramp(Prod(sa), 1), sa)
            b == TensorData(Ramp(Prod(sb), 3), sb)
            a3 == matmul_lift(a)
            b3 == matmul_lift(b)
        IN /\ CanBroadcast(SubSeq(a3.shape, 1, 2), SubSeq(b3.shape, 1, 2))
           /\ Last(a3.shape) = Last2(b3.shape)
           /\ LET out == matmul_out(a3, b3)
              IN kern' = [op |-> "matmul", a |-> a, b |-> b, a3 |-> a3, b3 |-> b3,
                          out |-> out, todo |-> 0..(out.shape[1] - 1),
                          wrote |-> NoWrites(out), pc |-> "loop"]

NextMatMul4 == MatMul4Call \/ MatMulBatch \/ MatMulReturn

SpecMatMul4 == InitKernel /\ [][NextMatMul4]_vars

\* ---------------------------------------------------------------- claim C25
\* operand element [m, n, i, k] of a rank-4 operand, a batch coordinate being
\* 0 where the operand's batch dimension is 1
BatchGet4(t, m, n, i, k) ==
    get(t, <<(IF t.shape[1] > 1 THEN m ELSE 0), (IF t.shape[2] > 1 THEN n ELSE 0), i, k>>)

\* C25: for operands with two leading batch dimensions that broadcast, every
\* element [m, n, i, j] of the product is the sum over k of
\* a[m, n, i, k] * b[m, n, k, j].
C25_MatMulRank4 ==
    (kern.op = "matmul" /\ kern.pc = "returned" /\ Len(kern.a.shape) = 4) =>
        \A idx \in Indices(kern.out.shape) :
            get(kern.out, idx)
            = FoldRange(LAMBDA acc, k :
                            acc + BatchGet4(kern.a, idx[1], idx[2], idx[3], k)
                                * BatchGet4(kern.b, idx[1], idx[2], k, idx[4]),
                        0, 0, Last(kern.a.shape))

\* ================================================== conv2d: input gradient
SpecConv2d == InitKernel /\ [][NextConv2d]_vars

\* ---------------------------------------------------------------- claim C26
\* C26: the input gradient returned by Conv2dFun.backward is
\* grad_input[b, ic, y, x] = sum over oc, i, j with 0 <= y - i < height and
\* 0 <= x - j < width of grad_output[b, oc, y - i, x - j] * weight[oc, ic, i, j].
C26_Conv2dGradInput ==
    (kern.op = "conv2d" /\ kern.mode = "backward" /\ kern.pc = "returned") =>
        LET input == kern.input
            weight == kern.weight
            height == input.shape[3]
            width == input.shape[4]
        IN /\ kern.out.shape = input.shape
           /\ \A idx \in Indices(kern.out.shape) :
                get(kern.out, idx) =
                    GridSum(LAMBDA oc, i :
                                FoldRange(LAMBDA acc, j :
                                    acc + (IF /\ 0 <= idx[3] - i /\ idx[3] - i < height
                                              /\ 0 <= idx[4] - j /\ idx[4] - j < width
                                           THEN get(kern.grad_output,
                                                    <<idx[1], oc, idx[3] - i, idx[4] - j>>)
                                                * get(weight, <<oc, idx[2], i, j>>)
                                           ELSE 0),
                                    0, 0, weight.shape[4]),
                            weight.shape[1], weight.shape[3])

\* ============================== convolution kernels: storage indices in use
\* _tensor_conv1d: the input storage positions iteration b reads.
conv1d_input_reads(out, input, weight, reverse, b) ==
    LET s1 == input.strides
    IN {b * s1[1] + ic * s1[2] + conv1d_in_w(reverse, w, weight.shape[3], k) * s1[3] :
            <<ic, k, w>> \in
                {t \in (0..(input.shape[2] - 1)) \X (0..(weight.shape[3] - 1))
                            \X (0..(out.shape[3] - 1)) :
                    conv_tap_in_extent(conv1d_in_w(reverse, t[3], weight.shape[3], t[2]),
                                       input.shape[3])}}

\* _tensor_conv1d: the weight storage positions iteration b reads.
conv1d_weight_reads(out, input, weight, reverse, b) ==
    LET s2 == weight.strides
    IN {oc * s2[1] + ic * s2[2] + k * s2[3] :
            <<oc, ic, k>> \in
                {t \in (0..(out.shape[2] - 1)) \X (0..(input.shape[2] - 1))
                            \X (0..(weight.shape[3] - 1)) :
                    \E w \in 0..(out.shape[3] - 1) :
                        conv_tap_in_extent(conv1d_in_w(reverse, w, weight.shape[3], t[3]),
                                           input.shape[3])}}

\* _tensor_conv2d: the input position of a tap along one axis.
conv2d_in(reverse, h, kh, kh_idx) == IF reverse THEN h - kh + 1 + kh_idx ELSE h + kh_idx

\* _tensor_conv2d: the input storage positions iteration b reads.
conv2d_input_reads(out, input, weight, reverse, b) ==
    LET s1 == input.strides
        kh == weight.shape[3]
        kw == weight.shape[4]
    IN {b * s1[1] + t[1] * s1[2] + conv2d_in(reverse, t[4], kh, t[2]) * s1[3]
            + conv2d_in(reverse, t[5], kw, t[3]) * s1[4] :
            t \in {t \in (0..(input.shape[2] - 1)) \X (0..(kh - 1)) \X (0..(kw - 1))
                            \X (0..(out.shape[3] - 1)) \X (0..(out.shape[4] - 1)) :
                    /\ conv_tap_in_extent(conv2d_in(reverse, t[4], kh, t[2]), input.shape[3])
                    /\ conv_tap_in_extent(conv2d_in(reverse, t[5], kw, t[3]), input.shape[4])}}

\* _tensor_conv2d: the weight storage positions iteration b reads.
conv2d_weight_reads(out, input, weight, reverse, b) ==
    LET s2 == weight.strides
        kh == weight.shape[3]
        kw == weight.shape[4]
    IN {t[1] * s2[1] + t[2] * s2[2] + t[3] * s2[3] + t[4] * s2[4] :
            t \in {t \in (0..(out.shape[2] - 1)) \X (0..(input.shape[2] - 1))
                            \X (0..(kh - 1)) \X (0..(kw - 1)) :
                    \E h \in 0..(out.shape[3] - 1), w \in 0..(out.shape[4] - 1) :
                        /\ conv_tap_in_extent(conv2d_in(reverse, h, kh, t[3]), input.shape[3])
                        /\ conv_tap_in_extent(conv2d_in(reverse, w, kw, t[4]), input.shape[4])}}

\* conv1d and conv2d, forward and backward.
NextConv == NextConv1d \/ NextConv2d

SpecConv == InitKernel /\ [][NextConv]_vars

\* ---------------------------------------------------------------- claim C27
\* the positions of a storage
Positions(storage) == 0..(Len(storage) - 1)

\* C27: in every call of _tensor_conv1d and _tensor_conv2d, with reverse false
\* or true and on the permuted operands of backward, every storage position an
\* iteration reads or writes lies within its storage; taps outside the input's
\* extent are not read.
C27_ConvInBounds ==
    /\ kern.op = "conv1d" =>
        \A b \in 0..(kern.out.shape[1] - 1) :
            /\ conv1d_batch_writes(kern.out, b) \subseteq Positions(kern.out.storage)
            /\ conv1d_input_reads(kern.out, kern.kin, kern.kweight, kern.reverse, b)
                    \subseteq Positions(kern.kin.storage)
            /\ conv1d_weight_reads(kern.out, kern.kin, kern.kweight, kern.reverse, b)
                    \subseteq Positions(kern.kweight.storage)
    /\ kern.op = "conv2d" =>
        \A b \in 0..(kern.out.shape[1] - 1) :
            /\ conv2d_batch_writes(kern.out, b) \subseteq Positions(kern.out.storage)
            /\ conv2d_input_reads(kern.out, kern.kin, kern.kweight, kern.reverse, b)
                    \subseteq Positions(kern.kin.storage)
            /\ conv2d_weight_reads(kern.out, kern.kin, kern.kweight, kern.reverse, b)
                    \subseteq Positions(kern.kweight.storage)

\* The reverse loop of a conv1d backward with a kernel wider than the input,
\* on a permuted weight.
C27_Witness ==
    /\ kern.op = "conv1d" /\ kern.reverse /\ kern.pc = "returned"
    /\ kern.kweight.shape[3] > kern.kin.shape[3]
    /\ ~is_contiguous(kern.kweight)
    /\ kern.kweight.shape[1] > 1 /\ kern.kweight.shape[2] > 1

\* ===================================== the flat loops of _map and _zip
\* ret(a, out) of FastOps.map(fn) with out a tensor the caller holds, of a's
\* shape, contiguous or permuted, holding 0.0.
MapIntoCall ==
    /\ UNCHANGED avars
    /\ kern.op = "none"
    /\ \E f \in MapFns, a \in Operands(ShapesUpTo(MaxZipSize), 1) :
        \E out \in {permute(zeros(sh), o) : <<sh, o>> \in
                        {t \in ShapesUpTo(MaxZipSize) \X Orders(Len(a.shape)) :
                            Len(t[1]) = Len(a.shape)}} :
            /\ out.shape = a.shape
            /\ kern' = [op |-> "map", fn |-> f, a |-> a, out |-> out,
                        todo |-> 0..(Len(out.storage) - 1),
                        wrote |-> NoWrites(out), read |-> NoWrites(out), pc |-> "loop"]

\* map calls, with out allocated or given, and zip calls.
NextAligned == MapCall \/ MapIntoCall \/ MapIter \/ MapReturn \/ NextZip

SpecAligned == InitKernel /\ [][NextAligned]_vars

\* the storage the indexed loop of _map leaves in an out holding 0.0
map_indexed(f, out, in) ==
    FoldRange(LAMBDA st, i : map_iter_indexed(f, [out EXCEPT !.storage = st], in, i),
              [p \in 1..Len(out.storage) |-> 0], 0, Len(out.storage))

\* the storage the indexed loop of _zip leaves in an out holding 0.0
zip_indexed(f, out, a, b) ==
    FoldRange(LAMBDA st, i : zip_iter_indexed(f, [out EXCEPT !.storage = st], a, b, i),
              [p \in 1..Len(out.storage) |-> 0], 0, Len(out.storage))

\* ---------------------------------------------------------------- claim C28
\* C28: when _map or _zip takes the flat loop (every operand has the rank,
\* shape and strides of out), the out storage it returns equals, position by
\* position, the storage the indexed loop produces for the same operands.
C28_FlatEqualsIndexed ==
    kern.op \in {"map", "zip"} /\ kern.pc = "returned" =>
        /\ kern.op = "map" /\ ~map_misaligned(kern.out, kern.a) =>
                kern.out.storage = map_indexed(kern.fn, kern.out, kern.a)
        /\ kern.op = "zip" /\ ~zip_misaligned(kern.out, kern.a, kern.b) =>
                kern.out.storage = zip_indexed(kern.fn, kern.out, kern.a, kern.b)

\* A map that took the flat loop on a permuted two-by-two tensor, written into
\* an out with the same permuted strides.
C28_Witness ==
    /\ kern.op = "map" /\ kern.pc = "returned" /\ kern.fn = "neg"
    /\ ~map_misaligned(kern.out, kern.a)
    /\ kern.out.shape = <<2, 2>> /\ kern.out.strides = <<1, 2>>
    /\ kern.out.storage = <<-1, -2, -3, -4>>

\* ================================================= Scalar.chain_rule
ScalarFns == {"Neg", "Mul"}

\* last_fn._backward(ctx, d_output): the local derivatives of a scalar
\* operation, one for each input, from the input values saved in ctx.
Scalar_backward(fn, values, d_output) ==
    CASE fn = "Neg" -> <<0 - d_output>>
      [] fn = "Mul" -> <<values[2] * d_output, values[1] * d_output>>

\* Scalar.chain_rule(d_output): list(zip(h.inputs, x)).
Scalar_chain_rule(S, s, d_output) ==
    LET h == S[s].history
        x == Scalar_backward(h.last_fn, [k \in DOMAIN h.inputs |-> S[h.inputs[k]].data],
                             d_output)
    IN [k \in 1..ZipLen(h.inputs, x) |-> [var |-> h.inputs[k], deriv |-> x[k]]]

\* s.chain_rule(d_output) on a scalar with a producing operation.
ScalarChainRule ==
    /\ pc = "idle"
    /\ \E s \in HeldScalars, d_output \in {1, 2} :
        /\ scalars[s].history.kind = "history"
        /\ scalars[s].history.last_fn # "none"
        /\ called' = [kind |-> "Scalar.chain_rule", s |-> s, d_output |-> d_output,
                      out |-> Scalar_chain_rule(scalars, s, d_output)]
    /\ UNCHANGED <<kern, tensors, tensor_count, pc, bp, contribs, svars>>

\* Scalars constructed, with or without a history, and chain_rule calls.
NextScalarChain == ScalarInit(MaxChainScalars, ScalarFns) \/ ScalarChainRule

SpecScalarChain == InitKernel /\ [][NextScalarChain]_vars

\* ---------------------------------------------------------------- claim C29
\* C29: Scalar.chain_rule pairs the k-th local derivative with the k-th input
\* and returns no pair that names a variable for which is_constant() is true.
C29_ScalarChainRuleFilters ==
    called.kind = "Scalar.chain_rule" =>
        \A k \in DOMAIN called.out :
            /\ called.out[k].var = scalars[called.s].history.inputs[k]
            /\ ~Scalar_is_constant(scalars[called.out[k].var])

\* ================================================= the order of the history
\* ---------------------------------------------------------------- claim C30
\* C30: after any sequence of constructions, Function.apply, detach and
\* requires_grad_ calls, every tensor with a producing operation has a
\* unique_id above the unique_id of each of its history inputs, so the inputs
\* of a tensor come after it in descending unique_id order.
C30_InputsBelowResult ==
    \A id \in Held :
        tensors[id].history.kind = "history" /\ tensors[id].history.last_fn # "none" =>
            \A k \in DOMAIN tensors[id].history.inputs :
                /\ tensors[id].history.inputs[k] < id
                /\ tensors[id].history.inputs[k] \in Held

\* A Mul whose first input is itself the result of an operation, after a
\* requires_grad_ call on that input.
C30_Witness ==
    /\ called.kind = "requires_grad_"
    /\ \E id \in Held :
        /\ tensors[id].history.kind = "history" /\ tensors[id].history.last_fn = "Mul"
        /\ tensors[id].history.inputs[1] = called.t
        /\ \E mid \in Held :
            /\ tensors[mid].history.kind = "history"
            /\ tensors[mid].history.last_fn = "Neg"
            /\ tensors[id].history.inputs[2] = mid

====
